---- MODULE Spec2Model ----
(***************************************************************************)
(* State-machine model of the EtherCAT CiA-402 control code:               *)
(*   - EtherCATController.enable_drive      (ethercat_control/controller)  *)
(*   - LC10ECsvDemo.run and its helpers     (drive_demo.py)                *)
(*   - pysoem_cia402_demo.main              (examples)                     *)
(*   - LC10ECsvDemo._map_pdos               (drive_demo.py)                *)
(*   - load and EtherCATController          (ethercat_control)             *)
(* Time is counted in milliseconds.  Register values are written in        *)
(* decimal; the hexadecimal value of the source is given in a comment.     *)
(***************************************************************************)
EXTENDS Integers, Sequences, FiniteSets, TLC

VARIABLES
    \* ---- EtherCATController.enable_drive
    cpc,        \* position of the caller inside enable_drive
    cstage,     \* index into the (cw, mask, value) sequence
    cnow,       \* time.time(), ms since the running _wait_status began
    cdeadline,  \* deadline of the running _wait_status
    clastRead,  \* time the last sdo_read of 0x6041 blocked
    cerr,       \* exception that left enable_drive
    cwLog,      \* controlwords written to 0x6040, in order
    cfaultAtShutdown, \* the drive's fault bit was set when 0x0006 was written
    cname,      \* servo name enable_drive was called with
    dev,        \* statusword register 0x6041 of the drive
    devKind,    \* behaviour of the drive behind the register
    \* ---- LC10ECsvDemo._map_pdos
    mpc,        \* position inside _map_pdos: idle, run, done, raised
    mstep,      \* index of the next sdo_write of _map_pdos
    mlog,       \* sdo_writes issued by the running call, in order
    mfailedAt,  \* index of the write that failed in the running call, 0 if none
    mruns,      \* calls of _map_pdos so far
    mfails,     \* calls of _map_pdos that ended in an error so far
    od,         \* the drive's object dictionary (PDO objects, mode)
    od0,        \* the object dictionary before the first call
    \* ---- LC10ECsvDemo.run
    dpc,        \* position inside run()
    dindex,     \* self.slave_index
    dtarget,    \* target_velocity_command
    dduration,  \* self.duration, in ms
    dopened,    \* master.open() has returned
    outLen,     \* len(slave.output)
    inLen,      \* len(slave.input)
    dattempt,   \* turns of the loop of _clear_faults done
    dstage,     \* stage of _enable_drive that _reach_state is waiting for
    dnow,       \* time.time(), ms since the running timed loop began
    ddeadline,  \* deadline of the running _reach_state
    derr,       \* exception that left the try block of run()
    dfinErr,    \* exception raised inside the finally block of run()
    dstateWrites, \* network states requested with write_state(), in order
    dcloses,    \* calls of master.close()
    xlog,       \* (controlword, target) pairs exchanged, repeats collapsed
    dout,       \* slave.output, as _exchange_pd last assigned it
    dx80,       \* exchanges that carried 0x0080 while every statusword read
                \* so far had the fault bit set (0 once it was read clear)
    dfaultAlways, \* every statusword read so far had the fault bit set
    dobserved,  \* stages whose expected statusword _reach_state has seen
    dholdEntered, \* _hold_velocity was entered
    drampZero,  \* exchanges of (0x000F, 0) after the hold loop
    drampShutdown, \* exchanges of (0x0006, 0) after the hold loop
    dintr,      \* KeyboardInterrupts delivered
    \* ---- pysoem_cia402_demo.main
    npc,        \* position inside main()
    nopened,    \* master.open() has returned
    nslaves,    \* len(master.slaves)
    nstage,     \* index into CONTROLWORD_SEQUENCE
    nstep,      \* index into CSP_STEPS
    ntoggle,    \* toggle of run_csp
    nnow,       \* time.time(), ms since the running timed loop began
    ndeadline,  \* deadline of the running wait_status or pump_process_data
    nerr,       \* exception leaving main()
    nlog,       \* register writes, state requests and close() calls, in order
    nqsFailed,  \* a quick-stop write has raised a register error
    nintr,      \* KeyboardInterrupts delivered
    nintrAt,    \* where main() was when the first KeyboardInterrupt arrived
    \* ---- LC10ECsvDemo._exchange_pd, statement by statement
    epc,        \* idle, run (inside _exchange_pd) or raised
    estep,      \* index of the next statement of _exchange_pd
    ecw,        \* argument controlword of the running call
    etarget,    \* argument target_velocity of the running call
    eoutLen,    \* len(slave.output)
    einLen,     \* len(slave.input)
    eout,       \* slave.output
    ewire,      \* the output bytes the last send_processdata put on the wire
    ein,        \* what slave.input holds, with the cycle that received it
    eret,       \* (status_word, vel_actual) last returned, with that cycle
    eevents,    \* statements of _exchange_pd executed, in order
    ecycles,    \* calls of _exchange_pd so far
    \* ---- EtherCATController.home
    hpc,        \* position inside home(): call, write, wait, done, raised
    hname,      \* servo name home() was called with
    hcfg,       \* servo.config.homing; an Optional field is <<>> or <<value>>
    hstep,      \* index of the next register write of home()
    hwrites,    \* register writes issued, in order: (index, subindex, value)
    hkind,      \* behaviour of the drive behind the statusword
    hpolls,     \* statusword reads of _wait_status so far (counted up to a cap)
    hnow,       \* time.time(), ms since _wait_status began
    hdeadline,  \* deadline of _wait_status
    herr,       \* exception that left home()
    hsawAttained, \* a polled statusword had bit 12 set and bit 13 clear
    hsawError,  \* a polled statusword had the homing-error bit 13 set
    \* ---- LC10ECsvDemo._decode_state and _pack_outputs, called on their own
    qpc,        \* decode or pack (about to be called), decoded, packed, raised
    qstatus,    \* argument status_word of _decode_state
    qlabel,     \* what _decode_state returned: (label, value shown in it)
    qcw,        \* argument controlword of _pack_outputs
    qtarget,    \* argument target_velocity of _pack_outputs
    qlen,       \* len(slave.output)
    qbytes,     \* what _pack_outputs returned
    \* ---- two runs of _enable_drive and _hold_velocity, side by side
    runA,       \* the first run: position, counters, clock, exchanges, display
    runB,       \* the second run, given the same statuswords at the same times
    vtarget,    \* target_velocity of both runs
    vduration,  \* self.duration of both runs, in ms
    vinLen,     \* len(slave.input) in both runs
    \* ---- load() and the EtherCATController it returns, call after call
    spc,        \* position of the caller: load, idle, inside connect or inside
                \* a servo operation, failed (load raised: no controller)
    sdata,      \* the setup JSON load() is given
    sconnect,   \* argument connect of load()
    sbus,       \* the devices on the bus: (alias, position) of each
    ssetup,     \* self.setup.servos, <<>> before load_setup returned
    smaster,    \* self.master: 0 for None, else the number of the Master
    smasters,   \* every pysoem.Master() created: opened, times closed
    sservos,    \* self.servos in insertion order: name, master, slave, config
    scall,      \* the running or last call: operation, servo name, argument
    squeue,     \* enable_all: names the loop has still to visit
    sseg,       \* index of the running segment (writes, then a wait) of the call
    sstep,      \* index of the next write of the segment, or of the next
                \* servo config of connect
    spolled,    \* the running _wait_status has read the statusword once
    slog,       \* bus activity of the running or last call, in order
    serr,       \* exception that left the last call
    scalls      \* calls made on the controller after load()

ctlVars == <<cpc, cstage, cnow, cdeadline, clastRead, cerr, cwLog,
             cfaultAtShutdown, cname, dev, devKind>>

mapVars == <<mpc, mstep, mlog, mfailedAt, mruns, mfails, od, od0>>

demoVars == <<dpc, dindex, dtarget, dduration, dopened, outLen, inLen, dattempt,
              dstage, dnow, ddeadline, derr, dfinErr, dstateWrites, dcloses,
              xlog, dout, dx80, dfaultAlways, dobserved, dholdEntered, drampZero,
              drampShutdown, dintr>>

mainVars == <<npc, nopened, nslaves, nstage, nstep, ntoggle, nnow, ndeadline,
              nerr, nlog, nqsFailed, nintr, nintrAt>>

xchgVars == <<epc, estep, ecw, etarget, eoutLen, einLen, eout, ewire, ein, eret,
              eevents, ecycles>>

homeVars == <<hpc, hname, hcfg, hstep, hwrites, hkind, hpolls, hnow, hdeadline,
              herr, hsawAttained, hsawError>>

codecVars == <<qpc, qstatus, qlabel, qcw, qtarget, qlen, qbytes>>

pairVars == <<runA, runB, vtarget, vduration, vinLen>>

sessVars == <<spc, sdata, sconnect, sbus, ssetup, smaster, smasters, sservos,
              scall, squeue, sseg, sstep, spolled, slog, serr, scalls>>

vars == <<ctlVars, mapVars, demoVars, mainVars, xchgVars, homeVars, codecVars,
          pairVars, sessVars>>

nonCtlVars ==
    <<mapVars, demoVars, mainVars, xchgVars, homeVars, codecVars, pairVars,
      sessVars>>
nonMapVars ==
    <<ctlVars, demoVars, mainVars, xchgVars, homeVars, codecVars, pairVars,
      sessVars>>
nonDemoMapVars ==
    <<ctlVars, mainVars, xchgVars, homeVars, codecVars, pairVars,
      sessVars>>
nonMainVars ==
    <<ctlVars, mapVars, demoVars, xchgVars, homeVars, codecVars, pairVars,
      sessVars>>
nonXchgVars ==
    <<ctlVars, mapVars, demoVars, mainVars, homeVars, codecVars, pairVars,
      sessVars>>
nonHomeVars ==
    <<ctlVars, mapVars, demoVars, mainVars, xchgVars, codecVars, pairVars,
      sessVars>>
nonCodecVars ==
    <<ctlVars, mapVars, demoVars, mainVars, xchgVars, homeVars, pairVars,
      sessVars>>
nonPairVars ==
    <<ctlVars, mapVars, demoVars, mainVars, xchgVars, homeVars, codecVars,
      sessVars>>
nonSessVars ==
    <<ctlVars, mapVars, demoVars, mainVars, xchgVars, homeVars, codecVars,
      pairVars>>

(***************************************************************************)
(* Bounds of the model                                                     *)
(***************************************************************************)
\* Longest time (ms) one blocking register access or process-data exchange takes.
MaxIoMs == 2

IoDur == 0..MaxIoMs

(***************************************************************************)
(* Bit operations on unsigned integers                                     *)
(***************************************************************************)
RECURSIVE BitAnd(_, _)
BitAnd(a, b) ==
    IF a = 0 \/ b = 0 THEN 0
    ELSE (a % 2) * (b % 2) + 2 * BitAnd(a \div 2, b \div 2)

FAULT_BIT == 8          \* 0x0008

HasFault(status) == BitAnd(status, FAULT_BIT) # 0

(***************************************************************************)
(* Statuswords a drive reports.                                            *)
(*   0 = 0x0000 not ready, 64 = 0x0040 switch on disabled, 8 = 0x0008      *)
(*   fault, 33 = 0x0021, 35 = 0x0023, 39 = 0x0027, 561 = 0x0231 (ready to  *)
(*   switch on, with bits 4 and 9)                                         *)
(***************************************************************************)
StatusSet == {0, 64, 8, 33, 35, 39, 561}

\* A drive that follows the CiA-402 transitions: the statusword it shows after
\* a controlword was written (bits outside 0x006F are the drive's to choose).
CoopResponses(cw, status) ==
    CASE cw = 6   -> {33, 561}
      [] cw = 7   -> {35}
      [] cw = 15  -> {39}
      [] cw = 128 -> {64}
      [] OTHER    -> {status}

\* Statuswords the register can hold after a write of cw.
DevAfterWrite(kind, cw, status) ==
    CASE kind = "coop"  -> CoopResponses(cw, status)
      [] kind = "stuck" -> {status}
      [] OTHER          -> StatusSet

\* Statuswords the register can hold at the next poll.
DevAtPoll(kind, status) ==
    IF kind = "free" THEN StatusSet ELSE {status}

\* Whether a register access on this drive can fail.
IoOutcomes(kind) == IF kind = "free" THEN {TRUE, FALSE} ELSE {TRUE}

(***************************************************************************)
(* EtherCATController.enable_drive                                         *)
(***************************************************************************)
STAGE_TIMEOUT_MS == 1000    \* timeout=1.0
POLL_INTERVAL_MS == 10      \* time.sleep(0.01)

\* sequence = ((0x0006, 0x004F, 0x0021), (0x0007, 0x006F, 0x0023), (0x000F, 0x006F, 0x0027))
EnableSequence ==
    << [cw |-> 6,  mask |-> 79,  value |-> 33],
       [cw |-> 7,  mask |-> 111, value |-> 35],
       [cw |-> 15, mask |-> 111, value |-> 39] >>

ConfiguredServos == {"x"}
ServoNames == {"x", "ghost"}

\* (status & mask) == value
StatusMatches(status, mask, value) == BitAnd(status, mask) = value

\* deadline = time.time() + timeout.  The code compares the clock with the
\* deadline only, so the clock is read relative to the start of the wait.
Deadline(now, timeout) == now + timeout

\* a loop test that lets the turn at the deadline itself run
BeforeDeadlineInclusive(now, deadline) == now <= deadline

\* while time.time() < deadline
BeforeDeadline(now, deadline) == now < deadline

CtlInit ==
    /\ cpc = "idle"
    /\ cstage = 1
    /\ cnow = 0
    /\ cdeadline = 0
    /\ clastRead = 0
    /\ cerr = "none"
    /\ cwLog = <<>>
    /\ cfaultAtShutdown = FALSE
    /\ cname = "none"
    /\ dev \in StatusSet
    /\ devKind \in {"coop", "stuck", "free"}

\* enable_drive is not running
CtlQuiet ==
    /\ cpc = "off"
    /\ cstage = 1
    /\ cnow = 0
    /\ cdeadline = 0
    /\ clastRead = 0
    /\ cerr = "none"
    /\ cwLog = <<>>
    /\ cfaultAtShutdown = FALSE
    /\ cname = "none"
    /\ dev = 0
    /\ devKind = "stuck"

\* enable_drive(name): servo = self._servo(name)
EnableDriveCall ==
    /\ cpc = "idle"
    /\ \E name \in ServoNames :
        /\ cname' = name
        /\ IF name \in ConfiguredServos
           THEN /\ cpc' = "write"
                /\ cerr' = cerr
           ELSE /\ cpc' = "raised"
                /\ cerr' = "KeyError"
    /\ UNCHANGED <<cstage, cnow, cdeadline, clastRead, cwLog,
                   cfaultAtShutdown, dev, devKind>>
    /\ UNCHANGED nonCtlVars

\* self._write_controlword(servo, cw); then _wait_status sets its deadline
WriteControlword ==
    /\ cpc = "write"
    /\ \E ok \in IoOutcomes(devKind) :
        LET cw == EnableSequence[cstage].cw IN
        /\ IF ok
           THEN /\ cwLog' = Append(cwLog, cw)
                /\ cfaultAtShutdown' = (cfaultAtShutdown \/ (cw = 6 /\ HasFault(dev)))
                /\ dev' \in DevAfterWrite(devKind, cw, dev)
                /\ cnow' = 0
                /\ cdeadline' = Deadline(0, STAGE_TIMEOUT_MS)
                /\ cpc' = "wait"
                /\ cerr' = cerr
           ELSE /\ cpc' = "raised"
                /\ cerr' = "SdoError"
                /\ UNCHANGED <<cwLog, cfaultAtShutdown, dev, cnow, cdeadline>>
    /\ UNCHANGED <<cstage, clastRead, cname, devKind>>
    /\ UNCHANGED nonCtlVars

\* one turn of the loop of _wait_status: the deadline test, sdo_read(0x6041),
\* the comparison and time.sleep(0.01); or the TimeoutError after the loop
WaitStatusPoll ==
    /\ cpc = "wait"
    /\ IF BeforeDeadline(cnow, cdeadline)
       THEN \E d \in IoDur, ok \in IoOutcomes(devKind), status \in DevAtPoll(devKind, dev) :
            LET st == EnableSequence[cstage] IN
            /\ clastRead' = d
            /\ dev' = status
            /\ IF ~ok
               THEN /\ cnow' = cnow + d
                    /\ cpc' = "raised"
                    /\ cerr' = "SdoError"
                    /\ cstage' = cstage
               ELSE IF StatusMatches(status, st.mask, st.value)
               THEN /\ cnow' = cnow + d
                    /\ cerr' = cerr
                    /\ IF cstage = Len(EnableSequence)
                       THEN cpc' = "done" /\ cstage' = cstage
                       ELSE cpc' = "write" /\ cstage' = cstage + 1
               ELSE /\ cnow' = cnow + d + POLL_INTERVAL_MS
                    /\ cpc' = "wait"
                    /\ cerr' = cerr
                    /\ cstage' = cstage
       ELSE /\ cpc' = "raised"
            /\ cerr' = "TimeoutError"
            /\ UNCHANGED <<cstage, cnow, clastRead, dev>>
    /\ UNCHANGED <<cdeadline, cwLog, cfaultAtShutdown, cname, devKind>>
    /\ UNCHANGED nonCtlVars

CtlNext ==
    \/ EnableDriveCall
    \/ WriteControlword
    \/ WaitStatusPoll


(***************************************************************************)
(* LC10ECsvDemo._map_pdos                                                  *)
(***************************************************************************)
\* struct.pack("B" / "<H" / "<I", value): n bytes, least significant first
RECURSIVE LEBytes(_, _)
LEBytes(value, n) ==
    IF n = 0 THEN <<>> ELSE <<value % 256>> \o LEBytes(value \div 256, n - 1)

SdoWrite(index, sub, data) == [index |-> index, sub |-> sub, data |-> data]

\* the writes of _map_pdos in the wrong order: the assignment count of each
\* sync manager is set to 1 before its subindex 1 is written
MapPdosWritesSwapped ==
    << SdoWrite(7186, 0, LEBytes(0, 1)),
       SdoWrite(5632, 0, LEBytes(0, 1)),
       SdoWrite(5632, 1, LEBytes(1614807056, 4)),
       SdoWrite(5632, 2, LEBytes(1616904200, 4)),
       SdoWrite(5632, 3, LEBytes(1627324448, 4)),
       SdoWrite(5632, 0, LEBytes(3, 1)),
       SdoWrite(7186, 0, LEBytes(1, 1)),
       SdoWrite(7186, 1, LEBytes(5632, 2)),
       SdoWrite(7187, 0, LEBytes(0, 1)),
       SdoWrite(6656, 0, LEBytes(0, 1)),
       SdoWrite(6656, 1, LEBytes(1614872592, 4)),
       SdoWrite(6656, 2, LEBytes(1617690656, 4)),
       SdoWrite(6656, 0, LEBytes(2, 1)),
       SdoWrite(7187, 0, LEBytes(1, 1)),
       SdoWrite(7187, 1, LEBytes(6656, 2)),
       SdoWrite(24672, 0, LEBytes(9, 1)) >>

\* the sdo_write calls of _map_pdos, in program order
\*   7186 = 0x1C12, 5632 = 0x1600, 7187 = 0x1C13, 6656 = 0x1A00, 24672 = 0x6060
\*   1614807056 = 0x60400010, 1616904200 = 0x60600008, 1627324448 = 0x60FF0020
\*   1614872592 = 0x60410010, 1617690656 = 0x606C0020
MapPdosWrites ==
    << SdoWrite(7186, 0, LEBytes(0, 1)),
       SdoWrite(5632, 0, LEBytes(0, 1)),
       SdoWrite(5632, 1, LEBytes(1614807056, 4)),
       SdoWrite(5632, 2, LEBytes(1616904200, 4)),
       SdoWrite(5632, 3, LEBytes(1627324448, 4)),
       SdoWrite(5632, 0, LEBytes(3, 1)),
       SdoWrite(7186, 1, LEBytes(5632, 2)),
       SdoWrite(7186, 0, LEBytes(1, 1)),
       SdoWrite(7187, 0, LEBytes(0, 1)),
       SdoWrite(6656, 0, LEBytes(0, 1)),
       SdoWrite(6656, 1, LEBytes(1614872592, 4)),
       SdoWrite(6656, 2, LEBytes(1617690656, 4)),
       SdoWrite(6656, 0, LEBytes(2, 1)),
       SdoWrite(7187, 1, LEBytes(6656, 2)),
       SdoWrite(7187, 0, LEBytes(1, 1)),
       SdoWrite(24672, 0, LEBytes(9, 1)) >>

\* the objects _map_pdos writes, as (index, subindex)
OdKeys == { <<MapPdosWrites[i].index, MapPdosWrites[i].sub>> : i \in 1..Len(MapPdosWrites) }

\* a drive whose objects are all zero
OdBlank == [k \in OdKeys |-> <<0>>]

\* a drive that comes up with a position mapping: 0x1600 = controlword +
\* target position (0x607A0020), 0x1A00 = statusword + position actual
\* value (0x60640020), both assigned, mode 8
OdFactory ==
    [k \in OdKeys |->
        CASE k = <<7186, 0>> -> LEBytes(1, 1)
          [] k = <<7186, 1>> -> LEBytes(5632, 2)
          [] k = <<5632, 0>> -> LEBytes(2, 1)
          [] k = <<5632, 1>> -> LEBytes(1614807056, 4)
          [] k = <<5632, 2>> -> LEBytes(1618608160, 4)
          [] k = <<7187, 0>> -> LEBytes(1, 1)
          [] k = <<7187, 1>> -> LEBytes(6656, 2)
          [] k = <<6656, 0>> -> LEBytes(2, 1)
          [] k = <<6656, 1>> -> LEBytes(1614872592, 4)
          [] k = <<6656, 2>> -> LEBytes(1617166368, 4)
          [] k = <<24672, 0>> -> LEBytes(8, 1)
          [] OTHER -> <<0>>]

InitialOds == {OdBlank, OdFactory}

\* the effect of one acknowledged sdo_write on the object dictionary
ApplyWrite(dict, w) == [dict EXCEPT ![<<w.index, w.sub>>] = w.data]

\* a retry that resumes at the write that failed
MapResumeStep(failedAt) == IF failedAt = 0 THEN 1 ELSE failedAt

\* _map_pdos has no memory of an earlier call: it starts at its first write
MapFirstStep(failedAt) == 1

\* Calls of _map_pdos the retrying caller makes at most.
MaxMapRuns == 3

\* _map_pdos has not been called; the drive holds one of the dictionaries ods
MapStart(ods) ==
    /\ mpc = "idle"
    /\ mstep = 1
    /\ mlog = <<>>
    /\ mfailedAt = 0
    /\ mruns = 0
    /\ mfails = 0
    /\ od \in ods
    /\ od0 = od

MapQuiet == MapStart({OdBlank})

MapInit == MapStart(InitialOds)

\* entry of _map_pdos(slave)
MapPdosBegin ==
    /\ mpc' = "run"
    /\ mstep' = MapFirstStep(mfailedAt)
    /\ mlog' = <<>>
    /\ mfailedAt' = 0
    /\ mruns' = mruns + 1
    /\ UNCHANGED <<mfails, od, od0>>

\* a caller that calls _map_pdos, and calls it again after it returned or raised
MapPdosCall ==
    /\ mpc \in {"idle", "done", "raised"}
    /\ mruns < MaxMapRuns
    /\ MapPdosBegin
    /\ UNCHANGED nonMapVars

\* one slave.sdo_write(...) of _map_pdos: acknowledged, or raising
MapPdosWrite ==
    /\ mpc = "run"
    /\ \E ok \in BOOLEAN :
        LET w == MapPdosWrites[mstep] IN
        /\ mlog' = Append(mlog, w)
        /\ IF ok
           THEN /\ od' = ApplyWrite(od, w)
                /\ IF mstep = Len(MapPdosWrites)
                   THEN mpc' = "done" /\ mstep' = mstep
                   ELSE mpc' = "run" /\ mstep' = mstep + 1
                /\ UNCHANGED <<mfailedAt, mfails>>
           ELSE /\ mpc' = "raised"
                /\ mfailedAt' = mstep
                /\ mfails' = mfails + 1
                /\ UNCHANGED <<od, mstep>>
    /\ UNCHANGED <<mruns, od0>>
    /\ UNCHANGED nonMapVars

MapNext ==
    \/ MapPdosCall
    \/ MapPdosWrite

(***************************************************************************)
(* LC10ECsvDemo.run: bring-up, _enable_drive, _hold_velocity, teardown     *)
(***************************************************************************)
FAULT_RESET_ATTEMPTS == 50   \* for _ in range(50)
REACH_TIMEOUT_MS == 5000     \* timeout: float = 5.0
REACH_SLEEP_MS == 50         \* time.sleep(0.05) in _reach_state
HOLD_SLEEP_MS == 10          \* time.sleep(0.01) in _hold_velocity
STATE_MASK == 111            \* 0x006F
PACKED_OUTPUT_BYTES == 7     \* "<H" at 0, "<b" at 2, "<i" at 3
PACKED_INPUT_BYTES == 6      \* "<H" at 0, "<i" at 2
CONTROLWORD_FAULT_RESET == 128   \* 0x0080
CONTROLWORD_SHUTDOWN == 6
CONTROLWORD_ENABLE == 15         \* 0x000F
CSV_MODE == 9                    \* 0x09

\* Longest duration (ms) the demo is asked to hold the speed.
MaxHoldMs == 25
\* Slaves config_init() finds at most.
MaxSlaves == 2
\* KeyboardInterrupts delivered at most during one run.
MaxInterrupts == 2

Targets == {100, -500}
Durations == {0, MaxHoldMs}
SlaveIndexes == {0, 1}
\* sizes of the process-data buffers after config_map
OutLens == {6, 7}
InLens == {1, 6}

\* the three _reach_state calls of _enable_drive:
\* (STATE_READY, CONTROLWORD_SHUTDOWN), (STATE_SWITCHED_ON, CONTROLWORD_SWITCH_ON),
\* (STATE_OPERATION_ENABLED, CONTROLWORD_ENABLE), with the RuntimeError of each
DemoStages ==
    << [expected |-> 33, cw |-> 6,  err |-> "NotReadyToSwitchOn"],
       [expected |-> 35, cw |-> 7,  err |-> "NotSwitchedOn"],
       [expected |-> 39, cw |-> 15, err |-> "NotOperationEnabled"] >>

\* the velocity argument of the stage's _reach_state call
StageVelocity(i, target) == IF i = 3 THEN target ELSE 0

\* struct.pack_into raises struct.error when the buffer is shorter than the layout
PackFails(len) == len < PACKED_OUTPUT_BYTES

\* a signed pack that writes a negative value without its sign bits (the
\* ones' complement of its bytes)
MagnitudeLEBytes(value, n) == LEBytes(IF value < 0 THEN -(value + 1) ELSE value, n)

\* struct.pack("<b" / "<i", value): n bytes, least significant first, a
\* negative value in two's complement (the floored division and the
\* non-negative remainder of LEBytes yield exactly these bytes)
SignedLEBytes(value, n) == LEBytes(value, n)

\* _pack_outputs raises struct.error: buffer too short, or a value outside the
\* range of its format ("<H" 0..0xFFFF, "<i" -2^31..2^31-1)
PackRaises(len, cw, target) ==
    \/ PackFails(len)
    \/ cw < 0 \/ cw > 65535
    \/ target < -2147483647 - 1 \/ target > 2147483647

\* a _pack_outputs that leaves the mode byte 0
PackOutputsNoMode(len, cw, target) ==
    LEBytes(cw, 2) \o <<0>> \o SignedLEBytes(target, 4)
    \o [i \in 1..(len - PACKED_OUTPUT_BYTES) |-> 0]

\* _pack_outputs: bytearray(len(slave.output)) with "<H" controlword at 0, "<b"
\* CSV_MODE at 2, "<i" target velocity at 3; the other bytes stay 0
PackOutputs(len, cw, target) ==
    LEBytes(cw, 2) \o SignedLEBytes(CSV_MODE, 1) \o SignedLEBytes(target, 4)
    \o [i \in 1..(len - PACKED_OUTPUT_BYTES) |-> 0]

\* an output layout with the target velocity aligned to a 4-byte boundary
OutputFieldsAligned ==
    << [index |-> 24640, offset |-> 0, width |-> 2],
       [index |-> 24672, offset |-> 2, width |-> 1],
       [index |-> 24831, offset |-> 4, width |-> 4] >>

\* the fields _pack_outputs packs: pack_into("<H", payload, 0, ...) for
\* 0x6040, ("<b", payload, 2, ...) for 0x6060, ("<i", payload, 3, ...) for
\* 0x60FF; the width is the size of the struct format
OutputFields ==
    << [index |-> 24640, offset |-> 0, width |-> 2],
       [index |-> 24672, offset |-> 2, width |-> 1],
       [index |-> 24831, offset |-> 3, width |-> 4] >>

\* the fields _exchange_pd unpacks: unpack_from("<H", slave.input, 0) for the
\* statusword 0x6041, unpack_from("<i", slave.input, 2) for the actual
\* velocity 0x606C
InputFields ==
    << [index |-> 24641, offset |-> 0, width |-> 2],
       [index |-> 24684, offset |-> 2, width |-> 4] >>

\* status_word = unpack_from("<H", slave.input, 0)[0] if len(slave.input) >= 2 else 0
UnpackStatus(len, raw) == IF len >= 2 THEN raw ELSE 0

\* a fault test that looks at bit 2 instead of bit 3
FaultClearedWrongBit(status) == BitAnd(status, 4) = 0

\* (status_word & 0x0008) == 0
FaultCleared(status) == BitAnd(status, FAULT_BIT) = 0

\* a caller that does not look at what _reach_state returned
ReachFailedIgnored(reached) == FALSE

\* if not self._reach_state(...): raise RuntimeError(...)
ReachFailed(reached) == ~reached

\* while time.time() - start < self.duration
HoldContinues(now, start, duration) == now - start < duration

\* What one call of _exchange_pd can do: raise struct.error while packing,
\* fail in the transport, or return the statusword unpacked from the inputs.
ExchangeOutcomes ==
    IF PackFails(outLen)
    THEN {[kind |-> "struct", status |-> 0, d |-> 0]}
    ELSE {[kind |-> "error", status |-> 0, d |-> 0]}
         \cup {[kind |-> "ok", status |-> UnpackStatus(inLen, raw), d |-> dur] :
                  raw \in StatusSet, dur \in IoDur}

ExchangeError(r) ==
    IF r.kind = "struct" THEN "StructError" ELSE "TransportError"

XlogAfter(cw, target) ==
    IF Len(xlog) > 0 /\ xlog[Len(xlog)] = <<cw, target>>
    THEN xlog ELSE Append(xlog, <<cw, target>>)

\* what _exchange_pd(cw, target) with outcome r leaves in the record of exchanges
ExchangePd(cw, target, r) ==
    IF r.kind = "struct"
    THEN UNCHANGED <<xlog, dout, dx80, dfaultAlways>>
    ELSE /\ xlog' = XlogAfter(cw, target)
         /\ dout' = PackOutputs(outLen, cw, target)
         /\ dfaultAlways' = IF r.kind = "ok"
                            THEN dfaultAlways /\ BitAnd(r.status, 8) # 0
                            ELSE dfaultAlways
         /\ dx80' = IF ~dfaultAlways' THEN 0
                    ELSE IF cw = CONTROLWORD_FAULT_RESET THEN dx80 + 1 ELSE dx80

\* an exception leaves the try block of run(): control goes to the finally
\* block.  The frames of the helpers are gone then: where an exception other
\* than a timeout unwinds a timed loop, the loop's clock is cleared.
RaiseInBody(e) ==
    /\ dpc' = "finally"
    /\ derr' = e

dparams == <<dindex, dtarget, dduration>>
dbuffers == <<outLen, inLen>>
dtimers == <<dattempt, dstage, dnow, ddeadline>>
dteardown == <<dfinErr, dstateWrites, dcloses>>
dexchanges == <<xlog, dout, dx80, dfaultAlways>>
dramp == <<dholdEntered, drampZero, drampShutdown>>

DemoQuiet ==
    /\ dpc = "off"
    /\ dindex = 0
    /\ dtarget = 0
    /\ dduration = 0
    /\ dopened = FALSE
    /\ outLen = 0
    /\ inLen = 0
    /\ dattempt = 0
    /\ dstage = 1
    /\ dnow = 0
    /\ ddeadline = 0
    /\ derr = "none"
    /\ dfinErr = "none"
    /\ dstateWrites = <<>>
    /\ dcloses = 0
    /\ xlog = <<>>
    /\ dout = <<>>
    /\ dx80 = 0
    /\ dfaultAlways = TRUE
    /\ dobserved = {}
    /\ dholdEntered = FALSE
    /\ drampZero = 0
    /\ drampShutdown = 0
    /\ dintr = 0

\* LC10ECsvDemo(iface, slave_index, target_rpm, duration), about to call run()
DemoInit ==
    /\ dpc = "open"
    /\ dindex \in SlaveIndexes
    /\ dtarget \in Targets
    /\ dduration \in Durations
    /\ dopened = FALSE
    /\ outLen = 0
    /\ inLen = 0
    /\ dattempt = 0
    /\ dstage = 1
    /\ dnow = 0
    /\ ddeadline = 0
    /\ derr = "none"
    /\ dfinErr = "none"
    /\ dstateWrites = <<>>
    /\ dcloses = 0
    /\ xlog = <<>>
    /\ dout = <<>>
    /\ dx80 = 0
    /\ dfaultAlways = TRUE
    /\ dobserved = {}
    /\ dholdEntered = FALSE
    /\ drampZero = 0
    /\ drampShutdown = 0
    /\ dintr = 0

\* self.master.open(self.iface), before the try block
MasterOpen ==
    /\ dpc = "open"
    /\ \E ok \in BOOLEAN :
        IF ok
        THEN /\ dopened' = TRUE
             /\ dpc' = "config_init"
             /\ derr' = derr
        ELSE /\ dopened' = FALSE
             /\ dpc' = "exit"
             /\ derr' = "ConnectionError"
    /\ UNCHANGED <<dparams, dbuffers, dtimers, dteardown, dexchanges, dobserved,
                   dramp, dintr>>
    /\ UNCHANGED <<nonDemoMapVars, mapVars>>

\* if self.master.config_init() <= self.slave_index: raise RuntimeError
ConfigInit ==
    /\ dpc = "config_init"
    /\ \E found \in 0..MaxSlaves :
        IF found <= dindex
        THEN RaiseInBody("NoSlaveAtIndex")
        ELSE dpc' = "config_map" /\ derr' = derr
    /\ UNCHANGED <<dparams, dopened, dbuffers, dtimers, dteardown, dexchanges,
                   dobserved, dramp, dintr>>
    /\ UNCHANGED <<nonDemoMapVars, mapVars>>

\* self.master.config_map() calls slave.config_func = self._setup_slave,
\* which calls _map_pdos
ConfigMap ==
    /\ dpc = "config_map"
    /\ mpc = "idle"
    /\ MapPdosBegin
    /\ UNCHANGED demoVars
    /\ UNCHANGED nonDemoMapVars

\* a config_map() that drops what the configuration callback raised
ConfigMapSwallows(m) == FALSE

\* config_map() raises again what slave.config_func (_setup_slave -> _map_pdos)
\* raised
ConfigMapRaises(m) == m = "raised"

\* config_map() returns once _map_pdos has, or raises what _map_pdos raised;
\* on return the process-data buffers have their sizes
ConfigMapReturn ==
    /\ dpc = "config_map"
    /\ mpc \in {"done", "raised"}
    /\ IF ConfigMapRaises(mpc)
       THEN /\ RaiseInBody("SdoError")
            /\ UNCHANGED dbuffers
       ELSE /\ dpc' = "safeop_check"
            /\ derr' = derr
            /\ outLen' \in OutLens
            /\ inLen' \in InLens
    /\ UNCHANGED <<dparams, dopened, dtimers, dteardown, dexchanges, dobserved,
                   dramp, dintr>>
    /\ UNCHANGED <<nonDemoMapVars, mapVars>>

\* if self.master.state_check(SAFEOP_STATE, 50_000) != SAFEOP_STATE: raise
SafeOpCheck ==
    /\ dpc = "safeop_check"
    /\ \E reached \in BOOLEAN :
        IF reached
        THEN dpc' = "op_request" /\ derr' = derr
        ELSE RaiseInBody("NotSafeOp")
    /\ UNCHANGED <<dparams, dopened, dbuffers, dtimers, dteardown, dexchanges,
                   dobserved, dramp, dintr>>
    /\ UNCHANGED <<nonDemoMapVars, mapVars>>

\* master.state = OP_STATE; send_processdata(); receive_processdata(2_000);
\* write_state()
OpRequest ==
    /\ dpc = "op_request"
    /\ \E ok \in BOOLEAN :
        /\ dstateWrites' = Append(dstateWrites, "OP")
        /\ IF ok
           THEN dpc' = "op_check" /\ derr' = derr
           ELSE RaiseInBody("WriteStateError")
    /\ UNCHANGED <<dparams, dopened, dbuffers, dtimers, dfinErr, dcloses,
                   dexchanges, dobserved, dramp, dintr>>
    /\ UNCHANGED <<nonDemoMapVars, mapVars>>

\* if self.master.state_check(OP_STATE, 50_000) != OP_STATE: raise; then
\* _enable_drive starts with _clear_faults
OpCheck ==
    /\ dpc = "op_check"
    /\ \E reached \in BOOLEAN :
        IF reached
        THEN dpc' = "clear_faults" /\ derr' = derr
        ELSE RaiseInBody("NotOperational")
    /\ UNCHANGED <<dparams, dopened, dbuffers, dtimers, dteardown, dexchanges,
                   dobserved, dramp, dintr>>
    /\ UNCHANGED <<nonDemoMapVars, mapVars>>

\* one turn of the loop of _clear_faults, or its "return False" and the
\* RuntimeError of _enable_drive; on "return True" the first _reach_state starts
ClearFaults ==
    /\ dpc = "clear_faults"
    /\ IF dattempt < FAULT_RESET_ATTEMPTS
       THEN \E r \in ExchangeOutcomes :
            /\ ExchangePd(CONTROLWORD_FAULT_RESET, 0, r)
            /\ IF r.kind # "ok"
               THEN /\ RaiseInBody(ExchangeError(r))
                    /\ UNCHANGED <<dattempt, dstage, dnow, ddeadline>>
               ELSE IF FaultCleared(r.status)
               THEN /\ dpc' = "reach"
                    /\ dstage' = 1
                    /\ dnow' = 0
                    /\ ddeadline' = Deadline(0, REACH_TIMEOUT_MS)
                    /\ dattempt' = 0
                    /\ derr' = derr
               ELSE /\ dattempt' = dattempt + 1
                    /\ UNCHANGED <<dpc, derr, dstage, dnow, ddeadline>>
       ELSE /\ RaiseInBody("FaultNotCleared")
            /\ UNCHANGED <<dtimers, dexchanges>>
    /\ UNCHANGED <<dparams, dopened, dbuffers, dteardown, dobserved, dramp, dintr>>
    /\ UNCHANGED <<nonDemoMapVars, mapVars>>

\* one turn of the loop of _reach_state, or its "return False" and the
\* RuntimeError of _enable_drive; "return True" starts the next stage or
\* _hold_velocity
ReachState ==
    /\ dpc = "reach"
    /\ LET st == DemoStages[dstage] IN
       IF BeforeDeadline(dnow, ddeadline)
       THEN \E r \in ExchangeOutcomes :
            /\ ExchangePd(st.cw, StageVelocity(dstage, dtarget), r)
            /\ IF r.kind # "ok"
               THEN /\ RaiseInBody(ExchangeError(r))
                    /\ dnow' = 0
                    /\ ddeadline' = 0
                    /\ UNCHANGED <<dstage, dobserved, dholdEntered>>
               ELSE IF StatusMatches(r.status, STATE_MASK, st.expected)
               THEN /\ dobserved' = dobserved \cup {dstage}
                    /\ dnow' = 0
                    /\ derr' = derr
                    /\ IF dstage = Len(DemoStages)
                       THEN /\ dpc' = "hold"
                            /\ dholdEntered' = TRUE
                            /\ UNCHANGED <<dstage, ddeadline>>
                       ELSE /\ dpc' = "reach"
                            /\ dstage' = dstage + 1
                            /\ ddeadline' = Deadline(0, REACH_TIMEOUT_MS)
                            /\ UNCHANGED dholdEntered
               ELSE /\ dnow' = dnow + r.d + REACH_SLEEP_MS
                    /\ UNCHANGED <<dpc, derr, dstage, ddeadline, dobserved, dholdEntered>>
       ELSE /\ IF ReachFailed(FALSE)
               THEN /\ RaiseInBody(st.err)
                    /\ UNCHANGED <<dstage, dnow, ddeadline, dholdEntered>>
               ELSE /\ derr' = derr
                    /\ dnow' = 0
                    /\ IF dstage = Len(DemoStages)
                       THEN /\ dpc' = "hold"
                            /\ dholdEntered' = TRUE
                            /\ UNCHANGED <<dstage, ddeadline>>
                       ELSE /\ dpc' = "reach"
                            /\ dstage' = dstage + 1
                            /\ ddeadline' = Deadline(0, REACH_TIMEOUT_MS)
                            /\ UNCHANGED dholdEntered
            /\ UNCHANGED <<dexchanges, dobserved>>
    /\ UNCHANGED <<dparams, dopened, dbuffers, dattempt, dteardown, drampZero,
                   drampShutdown, dintr>>
    /\ UNCHANGED <<nonDemoMapVars, mapVars>>

\* one turn of the loop of _hold_velocity: the exchange and time.sleep(0.01);
\* when the duration has passed the loop ends
HoldVelocity ==
    /\ dpc = "hold"
    /\ IF HoldContinues(dnow, 0, dduration)
       THEN \E r \in ExchangeOutcomes :
            /\ ExchangePd(CONTROLWORD_ENABLE, dtarget, r)
            /\ IF r.kind # "ok"
               THEN RaiseInBody(ExchangeError(r)) /\ dnow' = 0
               ELSE /\ dnow' = dnow + r.d + HOLD_SLEEP_MS
                    /\ UNCHANGED <<dpc, derr>>
       ELSE /\ dpc' = "ramp_zero"
            /\ UNCHANGED <<derr, dnow, dexchanges>>
    /\ UNCHANGED <<dparams, dopened, dbuffers, dattempt, dstage, ddeadline,
                   dteardown, dobserved, dramp, dintr>>
    /\ UNCHANGED <<nonDemoMapVars, mapVars>>

\* self._exchange_pd(self.CONTROLWORD_ENABLE, 0)
RampZero ==
    /\ dpc = "ramp_zero"
    /\ \E r \in ExchangeOutcomes :
        /\ ExchangePd(CONTROLWORD_ENABLE, 0, r)
        /\ drampZero' = drampZero + 1
        /\ IF r.kind # "ok"
           THEN RaiseInBody(ExchangeError(r))
           ELSE dpc' = "ramp_shutdown" /\ derr' = derr
    /\ UNCHANGED <<dparams, dopened, dbuffers, dtimers, dteardown, dobserved,
                   dholdEntered, drampShutdown, dintr>>
    /\ UNCHANGED <<nonDemoMapVars, mapVars>>

\* self._exchange_pd(self.CONTROLWORD_SHUTDOWN, 0); run() then reaches finally
RampShutdown ==
    /\ dpc = "ramp_shutdown"
    /\ \E r \in ExchangeOutcomes :
        /\ ExchangePd(CONTROLWORD_SHUTDOWN, 0, r)
        /\ drampShutdown' = drampShutdown + 1
        /\ dpc' = "finally"
        /\ derr' = IF r.kind # "ok" THEN ExchangeError(r) ELSE derr
    /\ UNCHANGED <<dparams, dopened, dbuffers, dtimers, dteardown, dobserved,
                   dholdEntered, drampZero, dintr>>
    /\ UNCHANGED <<nonDemoMapVars, mapVars>>

\* finally: self.master.state = INIT_STATE; self.master.write_state()
FinallyWriteState ==
    /\ dpc = "finally"
    /\ \E ok \in BOOLEAN :
        /\ dstateWrites' = Append(dstateWrites, "INIT")
        /\ IF ok
           THEN dpc' = "close" /\ dfinErr' = dfinErr
           ELSE dpc' = "exit" /\ dfinErr' = "WriteStateError"
    /\ UNCHANGED <<dparams, dopened, dbuffers, dtimers, derr, dcloses, dexchanges,
                   dobserved, dramp, dintr>>
    /\ UNCHANGED <<nonDemoMapVars, mapVars>>

\* finally: self.master.close()
FinallyClose ==
    /\ dpc = "close"
    /\ dcloses' = dcloses + 1
    /\ dpc' = "exit"
    /\ UNCHANGED <<dparams, dopened, dbuffers, dtimers, derr, dfinErr, dstateWrites,
                   dexchanges, dobserved, dramp, dintr>>
    /\ UNCHANGED <<nonDemoMapVars, mapVars>>

DemoBodyPcs == {"config_init", "config_map", "safeop_check", "op_request", "op_check",
                "clear_faults", "reach", "hold", "ramp_zero", "ramp_shutdown"}

\* KeyboardInterrupt: raised in the main thread wherever run() is.  In the try
\* block it unwinds to the finally block; in the finally block it ends run().
Interrupt ==
    /\ dpc \in DemoBodyPcs \cup {"finally", "close"}
    /\ dintr < MaxInterrupts
    /\ dintr' = dintr + 1
    /\ IF dpc \in DemoBodyPcs
       THEN /\ RaiseInBody("KeyboardInterrupt")
            /\ dfinErr' = dfinErr
       ELSE /\ dpc' = "exit"
            /\ dfinErr' = "KeyboardInterrupt"
            /\ derr' = derr
    /\ mpc' = IF mpc = "run" THEN "raised" ELSE mpc
    /\ UNCHANGED <<mstep, mlog, mfailedAt, mruns, mfails, od, od0>>
    /\ dnow' = 0
    /\ ddeadline' = 0
    /\ UNCHANGED <<dparams, dopened, dbuffers, dattempt, dstage, dstateWrites,
                   dcloses, dexchanges, dobserved, dramp>>
    /\ UNCHANGED nonDemoMapVars

DemoNext ==
    \/ MasterOpen
    \/ ConfigInit
    \/ ConfigMap
    \/ MapPdosWrite
    \/ ConfigMapReturn
    \/ SafeOpCheck
    \/ OpRequest
    \/ OpCheck
    \/ ClearFaults
    \/ ReachState
    \/ HoldVelocity
    \/ RampZero
    \/ RampShutdown
    \/ FinallyWriteState
    \/ FinallyClose
    \/ Interrupt

(***************************************************************************)
(* pysoem_cia402_demo.main with MODE = "csp"                               *)
(***************************************************************************)
MAIN_STAGE_TIMEOUT_MS == 2000   \* wait_status(..., timeout=2.0)
MAIN_POLL_MS == 10              \* time.sleep(0.01) in wait_status
CYCLE_TIME_MS == 10             \* CYCLE_TIME = 0.01
CONTROLWORD_QUICK_STOP == 11    \* 0x000B
OBJ_CONTROLWORD == 24640        \* 0x6040
OBJ_MODE == 24672               \* 0x6060
OBJ_TARGET_POSITION == 24698    \* 0x607A
MODE_CSP == 8                   \* MODE_TO_CODE["csp"]
TOGGLE_BIT == 16                \* 0x0010
INIT_STATE == 1                 \* pysoem.INIT_STATE
SAFEOP_STATE == 4               \* pysoem.SAFEOP_STATE
OP_STATE == 8                   \* pysoem.OP_STATE

\* CONTROLWORD_SEQUENCE
ControlwordSequence ==
    << [cw |-> 6,  mask |-> 111, value |-> 33],
       [cw |-> 7,  mask |-> 111, value |-> 35],
       [cw |-> 15, mask |-> 111, value |-> 39] >>

\* CSP_STEPS, the dwell in ms
CspSteps ==
    << [target |-> 0,      dwell |-> 500],
       [target |-> 20000,  dwell |-> 1500],
       [target |-> -20000, dwell |-> 1500],
       [target |-> 0,      dwell |-> 1000] >>

\* cw = 0x000F | (0x0010 if toggle else 0)
CspControlword(toggle) == CONTROLWORD_ENABLE + (IF toggle THEN TOGGLE_BIT ELSE 0)

SdoEntry(index, value) == <<"sdo", index, value>>
StateEntry(state) == <<"state", state, 0>>
CloseEntry == <<"close", 0, 0>>

\* a quick_stop that lets every exception through
SwallowsNothing(exc) == FALSE

\* quick_stop: "except Exception: pass" catches every exception that is not a
\* KeyboardInterrupt
Swallows(exc) == exc # "KeyboardInterrupt"

\* if master.slaves:
HandlerStops(slaves) == slaves > 0

\* the statements of the try block of main()
MainBodyPcs == {"open", "config_init", "config_map", "safeop", "op", "set_mode",
                "enable_write", "wait_status", "csp_write", "pump", "quick_stop"}

mclock == <<nstage, nstep, ntoggle, nnow, ndeadline>>
mintrs == <<nintr, nintrAt>>

MainQuiet ==
    /\ npc = "off"
    /\ nopened = FALSE
    /\ nslaves = 0
    /\ nstage = 1
    /\ nstep = 1
    /\ ntoggle = FALSE
    /\ nnow = 0
    /\ ndeadline = 0
    /\ nerr = "none"
    /\ nlog = <<>>
    /\ nqsFailed = FALSE
    /\ nintr = 0
    /\ nintrAt = "none"

\* master = pysoem.Master(), about to enter the try block
MainInit ==
    /\ npc = "open"
    /\ nopened = FALSE
    /\ nslaves = 0
    /\ nstage = 1
    /\ nstep = 1
    /\ ntoggle = FALSE
    /\ nnow = 0
    /\ ndeadline = 0
    /\ nerr = "none"
    /\ nlog = <<>>
    /\ nqsFailed = FALSE
    /\ nintr = 0
    /\ nintrAt = "none"

\* an exception that is not a KeyboardInterrupt leaves the try block: no except
\* clause takes it, the finally block runs and the exception goes on
MainRaise(e) ==
    /\ npc' = "fin_write"
    /\ nerr' = e

\* master.open(adapter.name), the first statement of the try block
MainOpen ==
    /\ npc = "open"
    /\ \E ok \in BOOLEAN :
        IF ok
        THEN nopened' = TRUE /\ npc' = "config_init" /\ nerr' = nerr
        ELSE nopened' = FALSE /\ MainRaise("ConnectionError")
    /\ UNCHANGED <<nslaves, mclock, nlog, nqsFailed, mintrs>>
    /\ UNCHANGED nonMainVars

\* transition_to_op: if not master.config_init(): raise RuntimeError
MainConfigInit ==
    /\ npc = "config_init"
    /\ \E found \in 0..MaxSlaves :
        /\ nslaves' = found
        /\ IF found = 0
           THEN MainRaise("NoSlaves")
           ELSE npc' = "config_map" /\ nerr' = nerr
    /\ UNCHANGED <<nopened, mclock, nlog, nqsFailed, mintrs>>
    /\ UNCHANGED nonMainVars

\* transition_to_op: master.config_map()
MainConfigMap ==
    /\ npc = "config_map"
    /\ \E ok \in BOOLEAN :
        IF ok
        THEN npc' = "safeop" /\ nerr' = nerr
        ELSE MainRaise("ConfigMapError")
    /\ UNCHANGED <<nopened, nslaves, mclock, nlog, nqsFailed, mintrs>>
    /\ UNCHANGED nonMainVars

\* transition_to_op: master.state = SAFEOP_STATE; write_state();
\* state_check(SAFEOP_STATE, 2_000_000), whose result is not looked at
MainSafeOp ==
    /\ npc = "safeop"
    /\ nlog' = Append(nlog, StateEntry(SAFEOP_STATE))
    /\ \E ok \in BOOLEAN :
        IF ok
        THEN npc' = "op" /\ nerr' = nerr
        ELSE MainRaise("WriteStateError")
    /\ UNCHANGED <<nopened, nslaves, mclock, nqsFailed, mintrs>>
    /\ UNCHANGED nonMainVars

\* transition_to_op: master.state = OP_STATE; write_state();
\* state_check(OP_STATE, 2_000_000), whose result is not looked at
MainOp ==
    /\ npc = "op"
    /\ nlog' = Append(nlog, StateEntry(OP_STATE))
    /\ \E ok \in BOOLEAN :
        IF ok
        THEN npc' = "set_mode" /\ nerr' = nerr
        ELSE MainRaise("WriteStateError")
    /\ UNCHANGED <<nopened, nslaves, mclock, nqsFailed, mintrs>>
    /\ UNCHANGED nonMainVars

\* set_mode(slave, MODE): write 0x6060, then read 0x6061; a value read that
\* differs only prints a warning
MainSetMode ==
    /\ npc = "set_mode"
    /\ nlog' = Append(nlog, SdoEntry(OBJ_MODE, MODE_CSP))
    /\ \E writeOk \in BOOLEAN, readOk \in BOOLEAN :
        IF writeOk /\ readOk
        THEN npc' = "enable_write" /\ nerr' = nerr
        ELSE MainRaise("SdoError")
    /\ UNCHANGED <<nopened, nslaves, mclock, nqsFailed, mintrs>>
    /\ UNCHANGED nonMainVars

\* enable_drive: write_int(slave, 0x6040, 0x00, cw, ...) and the first line of
\* wait_status, deadline = time.time() + timeout
MainEnableWrite ==
    /\ npc = "enable_write"
    /\ nlog' = Append(nlog, SdoEntry(OBJ_CONTROLWORD, ControlwordSequence[nstage].cw))
    /\ \E ok \in BOOLEAN :
        IF ok
        THEN /\ npc' = "wait_status"
             /\ nerr' = nerr
             /\ nnow' = 0
             /\ ndeadline' = Deadline(0, MAIN_STAGE_TIMEOUT_MS)
        ELSE /\ MainRaise("SdoError")
             /\ UNCHANGED <<nnow, ndeadline>>
    /\ UNCHANGED <<nopened, nslaves, nstage, nstep, ntoggle, nqsFailed, mintrs>>
    /\ UNCHANGED nonMainVars

\* one turn of the loop of wait_status, or its TimeoutError; after the third
\* stage run_csp starts
MainWaitStatus ==
    /\ npc = "wait_status"
    /\ LET st == ControlwordSequence[nstage] IN
       IF BeforeDeadline(nnow, ndeadline)
       THEN \E ok \in BOOLEAN, status \in StatusSet, d \in IoDur :
            IF ~ok
            THEN /\ MainRaise("SdoError")
                 /\ nnow' = 0
                 /\ ndeadline' = 0
                 /\ UNCHANGED nstage
            ELSE IF StatusMatches(status, st.mask, st.value)
            THEN /\ nerr' = nerr
                 /\ nnow' = 0
                 /\ ndeadline' = 0
                 /\ IF nstage = Len(ControlwordSequence)
                    THEN npc' = "csp_write" /\ UNCHANGED nstage
                    ELSE npc' = "enable_write" /\ nstage' = nstage + 1
            ELSE /\ nnow' = nnow + d + MAIN_POLL_MS
                 /\ UNCHANGED <<npc, nerr, nstage, ndeadline>>
       ELSE /\ MainRaise("TimeoutError")
            /\ UNCHANGED <<nstage, nnow, ndeadline>>
    /\ UNCHANGED <<nopened, nslaves, nstep, ntoggle, nlog, nqsFailed, mintrs>>
    /\ UNCHANGED nonMainVars

\* run_csp, one step: write the target to 0x607A, write the controlword with
\* the toggle bit, flip the toggle; pump_process_data then sets its end
MainCspWrite ==
    /\ npc = "csp_write"
    /\ \E targetOk \in BOOLEAN, cwOk \in BOOLEAN :
        LET t == SdoEntry(OBJ_TARGET_POSITION, CspSteps[nstep].target)
            c == SdoEntry(OBJ_CONTROLWORD, CspControlword(ntoggle))
        IN  IF ~targetOk
            THEN /\ nlog' = Append(nlog, t)
                 /\ MainRaise("SdoError")
                 /\ UNCHANGED <<ntoggle, nnow, ndeadline>>
            ELSE IF ~cwOk
            THEN /\ nlog' = nlog \o <<t, c>>
                 /\ MainRaise("SdoError")
                 /\ UNCHANGED <<ntoggle, nnow, ndeadline>>
            ELSE /\ nlog' = nlog \o <<t, c>>
                 /\ ntoggle' = ~ntoggle
                 /\ npc' = "pump"
                 /\ nerr' = nerr
                 /\ nnow' = 0
                 /\ ndeadline' = Deadline(0, CspSteps[nstep].dwell)
    /\ UNCHANGED <<nopened, nslaves, nstage, nstep, nqsFailed, mintrs>>
    /\ UNCHANGED nonMainVars

\* one turn of the loop of pump_process_data: send, receive, sleep(CYCLE_TIME);
\* when the dwell has passed, the next step of run_csp or the quick stop
MainPump ==
    /\ npc = "pump"
    /\ IF BeforeDeadline(nnow, ndeadline)
       THEN \E ok \in BOOLEAN, d \in IoDur :
            IF ok
            THEN /\ nnow' = nnow + d + CYCLE_TIME_MS
                 /\ UNCHANGED <<npc, nerr, nstep, ndeadline>>
            ELSE /\ MainRaise("TransportError")
                 /\ nnow' = 0
                 /\ ndeadline' = 0
                 /\ UNCHANGED nstep
       ELSE /\ nerr' = nerr
            /\ nnow' = 0
            /\ ndeadline' = 0
            /\ IF nstep = Len(CspSteps)
               THEN npc' = "quick_stop" /\ UNCHANGED nstep
               ELSE npc' = "csp_write" /\ nstep' = nstep + 1
    /\ UNCHANGED <<nopened, nslaves, nstage, ntoggle, nlog, nqsFailed, mintrs>>
    /\ UNCHANGED nonMainVars

\* what the write of 0x000B inside quick_stop can end with: it returns, it
\* raises a register error, or a KeyboardInterrupt arrives while it blocks
QuickStopOutcomes ==
    {"none", "SdoError"}
    \cup (IF nintr < MaxInterrupts THEN {"KeyboardInterrupt"} ELSE {})

\* the first KeyboardInterrupt is remembered with the place it arrived at
NoteInterrupt(exc, place) ==
    IF exc = "KeyboardInterrupt"
    THEN /\ nintr' = nintr + 1
         /\ nintrAt' = IF nintr = 0 THEN place ELSE nintrAt
    ELSE UNCHANGED <<nintr, nintrAt>>

\* quick_stop(slave) at the end of the try block ("Demo complete"): what
\* quick_stop swallows is followed by the finally block; a KeyboardInterrupt
\* is taken by the except clause of main()
MainQuickStop ==
    /\ npc = "quick_stop"
    /\ nlog' = Append(nlog, SdoEntry(OBJ_CONTROLWORD, CONTROLWORD_QUICK_STOP))
    /\ \E exc \in QuickStopOutcomes :
        /\ NoteInterrupt(exc, "quick_stop_write")
        /\ nqsFailed' = (nqsFailed \/ exc = "SdoError")
        /\ IF exc = "none" \/ Swallows(exc)
           THEN npc' = "fin_write" /\ nerr' = nerr
           ELSE IF exc = "KeyboardInterrupt"
           THEN npc' = "handler" /\ nerr' = nerr
           ELSE MainRaise(exc)
    /\ UNCHANGED <<nopened, nslaves, mclock>>
    /\ UNCHANGED nonMainVars

\* except KeyboardInterrupt: if master.slaves: quick_stop(master.slaves[0]);
\* an exception that leaves the handler goes on after the finally block
MainHandler ==
    /\ npc = "handler"
    /\ npc' = "fin_write"
    /\ IF HandlerStops(nslaves)
       THEN /\ nlog' = Append(nlog, SdoEntry(OBJ_CONTROLWORD, CONTROLWORD_QUICK_STOP))
            /\ \E exc \in QuickStopOutcomes :
                /\ NoteInterrupt(exc, "handler_write")
                /\ nqsFailed' = (nqsFailed \/ exc = "SdoError")
                /\ nerr' = IF exc = "none" \/ Swallows(exc) THEN nerr ELSE exc
       ELSE UNCHANGED <<nlog, nqsFailed, nerr, mintrs>>
    /\ UNCHANGED <<nopened, nslaves, mclock>>
    /\ UNCHANGED nonMainVars

\* finally: try: master.state = INIT_STATE; master.write_state()
MainFinallyWrite ==
    /\ npc = "fin_write"
    /\ nlog' = Append(nlog, StateEntry(INIT_STATE))
    /\ npc' = "fin_close"
    /\ \E ok \in BOOLEAN :
        nerr' = IF ok THEN nerr ELSE "WriteStateError"
    /\ UNCHANGED <<nopened, nslaves, mclock, nqsFailed, mintrs>>
    /\ UNCHANGED nonMainVars

\* finally: finally: master.close()
MainFinallyClose ==
    /\ npc = "fin_close"
    /\ nlog' = Append(nlog, CloseEntry)
    /\ npc' = "exit"
    /\ UNCHANGED <<nopened, nslaves, mclock, nerr, nqsFailed, mintrs>>
    /\ UNCHANGED nonMainVars

\* KeyboardInterrupt before the statement main() is at: in the try block the
\* except clause takes it; in the handler it goes to the finally block; at the
\* INIT request it goes to close(); at close() it ends main()
MainInterrupt ==
    /\ npc \in MainBodyPcs \cup {"handler", "fin_write", "fin_close"}
    /\ nintr < MaxInterrupts
    /\ NoteInterrupt("KeyboardInterrupt", npc)
    /\ IF npc \in MainBodyPcs
       THEN npc' = "handler" /\ nerr' = nerr
       ELSE /\ nerr' = "KeyboardInterrupt"
            /\ npc' = CASE npc = "handler"   -> "fin_write"
                        [] npc = "fin_write" -> "fin_close"
                        [] OTHER             -> "exit"
    /\ nnow' = 0
    /\ ndeadline' = 0
    /\ UNCHANGED <<nopened, nslaves, nstage, nstep, ntoggle, nlog, nqsFailed>>
    /\ UNCHANGED nonMainVars

MainNext ==
    \/ MainOpen
    \/ MainConfigInit
    \/ MainConfigMap
    \/ MainSafeOp
    \/ MainOp
    \/ MainSetMode
    \/ MainEnableWrite
    \/ MainWaitStatus
    \/ MainCspWrite
    \/ MainPump
    \/ MainQuickStop
    \/ MainHandler
    \/ MainFinallyWrite
    \/ MainFinallyClose
    \/ MainInterrupt

(***************************************************************************)
(* LC10ECsvDemo._exchange_pd, one statement at a time                      *)
(***************************************************************************)
\* Calls of _exchange_pd in one sequence of cycles at most.
MaxCycles == 3

\* raw actual-velocity values a drive reports (counts/s)
Velocities == {0, 131072}

\* the statements of _exchange_pd with the send moved before the packing
ExchangeStepsSendFirst == <<"send", "pack", "receive", "unpack">>

\* the statements of _exchange_pd: slave.output = self._pack_outputs(...),
\* master.send_processdata(), master.receive_processdata(2_000), the two
\* struct.unpack_from of slave.input
ExchangeSteps == <<"pack", "send", "receive", "unpack">>

\* the (controlword, target) arguments the callers pass: _clear_faults,
\* _reach_state from _enable_drive, _hold_velocity and its ramp-down
ExchangeCallArgs ==
    {<<CONTROLWORD_FAULT_RESET, 0>>, <<CONTROLWORD_SHUTDOWN, 0>>,
     <<CONTROLWORD_ENABLE, 0>>}
    \cup {<<DemoStages[i].cw, StageVelocity(i, t)>> :
             i \in 1..Len(DemoStages), t \in Targets}

\* vel_actual = unpack_from("<i", slave.input, 2)[0] if len(slave.input) >= 6 else 0
UnpackVelocity(len, raw) == IF len >= PACKED_INPUT_BYTES THEN raw ELSE 0

XchgQuiet ==
    /\ epc = "off"
    /\ estep = 1
    /\ ecw = 0
    /\ etarget = 0
    /\ eoutLen = 0
    /\ einLen = 0
    /\ eout = <<>>
    /\ ewire = <<>>
    /\ ein = [status |-> 0, vel |-> 0, cycle |-> 0]
    /\ eret = <<0, 0, 0>>
    /\ eevents = <<>>
    /\ ecycles = 0

\* the slave after config_map: buffers of their sizes, all bytes 0
XchgInit ==
    /\ epc = "idle"
    /\ estep = 1
    /\ ecw = 0
    /\ etarget = 0
    /\ eoutLen \in OutLens
    /\ einLen \in InLens
    /\ eout = [i \in 1..eoutLen |-> 0]
    /\ ewire = <<>>
    /\ ein = [status |-> 0, vel |-> 0, cycle |-> 0]
    /\ eret = <<0, 0, 0>>
    /\ eevents = <<>>
    /\ ecycles = 0

\* a caller calls self._exchange_pd(controlword, target_velocity)
ExchangeCall ==
    /\ epc = "idle"
    /\ ecycles < MaxCycles
    /\ \E args \in ExchangeCallArgs :
        /\ ecw' = args[1]
        /\ etarget' = args[2]
    /\ epc' = "run"
    /\ estep' = 1
    /\ ecycles' = ecycles + 1
    /\ UNCHANGED <<eoutLen, einLen, eout, ewire, ein, eret, eevents>>
    /\ UNCHANGED nonXchgVars

\* the next statement of _exchange_pd: it completes, or raises and so ends the
\* sequence of cycles; after the last statement the call returns
ExchangeStatement ==
    /\ epc = "run"
    /\ LET stmt == ExchangeSteps[estep] IN
       /\ eevents' = Append(eevents, stmt)
       /\ \E ok \in BOOLEAN, status \in StatusSet, vel \in Velocities :
           LET fails == IF stmt = "pack" THEN PackRaises(eoutLen, ecw, etarget)
                        ELSE IF stmt = "unpack" THEN FALSE
                        ELSE ~ok
           IN  IF fails
               THEN /\ epc' = "raised"
                    /\ UNCHANGED <<estep, eout, ewire, ein, eret>>
               ELSE /\ eout' = IF stmt = "pack"
                               THEN PackOutputs(eoutLen, ecw, etarget) ELSE eout
                    /\ ewire' = IF stmt = "send" THEN eout ELSE ewire
                    /\ ein' = IF stmt = "receive"
                              THEN [status |-> status, vel |-> vel, cycle |-> ecycles]
                              ELSE ein
                    /\ eret' = IF stmt = "unpack"
                               THEN << UnpackStatus(einLen, ein.status),
                                       UnpackVelocity(einLen, ein.vel), ein.cycle >>
                               ELSE eret
                    /\ IF estep = Len(ExchangeSteps)
                       THEN epc' = "idle" /\ estep' = 1
                       ELSE epc' = "run" /\ estep' = estep + 1
    /\ UNCHANGED <<ecw, etarget, eoutLen, einLen, ecycles>>
    /\ UNCHANGED nonXchgVars

XchgNext ==
    \/ ExchangeCall
    \/ ExchangeStatement

(***************************************************************************)
(* EtherCATController.home                                                 *)
(***************************************************************************)
MODE_HOMING == 6                 \* MODE_HOMING = 6
CONTROLWORD_START_HOMING == 31   \* 0x001F
HOMING_MASK == 12288             \* mask=0x3000
HOMING_ATTAINED == 4096          \* value=0x1000
HOMING_TIMEOUT_MS == 10000       \* timeout=10.0

\* Statusword reads of one homing counted at most.
MaxPollCount == 3

\* Homing(method, offset, speed_fast, speed_slow, accel): the defaults, the
\* configuration of a drive with everything set, and two in between
HomingConfigs ==
    { [method |-> 35, offset |-> 0,   speed_fast |-> <<>>,    speed_slow |-> <<>>,
       accel |-> <<>>],
      [method |-> 35, offset |-> 0,   speed_fast |-> <<500>>, speed_slow |-> <<100>>,
       accel |-> <<>>],
      [method |-> 17, offset |-> 100, speed_fast |-> <<>>,    speed_slow |-> <<100>>,
       accel |-> <<2000>>],
      [method |-> 17, offset |-> 100, speed_fast |-> <<500>>, speed_slow |-> <<100>>,
       accel |-> <<2000>>] }

\* if homing.<field> is not None: self._write_sdo_int(servo, index, sub, value, ...)
WriteIfPresent(index, sub, field) ==
    IF field = <<>> THEN <<>> ELSE << <<index, sub, field[1]>> >>

\* the register writes of home(), in order: _set_mode (0x6060), the method
\* (0x6098), the speeds (0x6099:1, 0x6099:2) and the acceleration (0x609A)
\* where configured, the start-homing controlword (0x6040)
HomeWrites(cfg) ==
    << <<24672, 0, MODE_HOMING>>, <<24728, 0, cfg.method>> >>
    \o WriteIfPresent(24729, 1, cfg.speed_fast)
    \o WriteIfPresent(24729, 2, cfg.speed_slow)
    \o WriteIfPresent(24730, 0, cfg.accel)
    \o << <<24640, 0, CONTROLWORD_START_HOMING>> >>

\* Statuswords a drive reports while homing: 0x0237 (running), 0x1237
\* (attained), 0x2000 (error), 0x3000 (attained and error)
HomeStatusSet == {567, 4663, 8192, 12288}

\* The statusword the drive shows at its poll number n (1, 2, ...):
\*   "third"  sets bit 0x1000 from the third poll on,
\*   "free"   any statusword at any poll (also none of them ever attained,
\*            or the homing-error bit at every poll)
HomeStatusAt(kind, n) ==
    IF kind = "third"
    THEN (IF n >= 3 THEN {4663} ELSE {567})
    ELSE HomeStatusSet

\* a wait that returns on any of the two homing bits
HomingAttainedAnyBit(status) == BitAnd(status, HOMING_MASK) # 0

\* _wait_status(servo, mask=0x3000, value=0x1000, ...): (status & mask) == value
HomingAttained(status) == StatusMatches(status, HOMING_MASK, HOMING_ATTAINED)

HomeQuiet ==
    /\ hpc = "off"
    /\ hname = "x"
    /\ hcfg = [method |-> 35, offset |-> 0, speed_fast |-> <<>>, speed_slow |-> <<>>,
               accel |-> <<>>]
    /\ hstep = 1
    /\ hwrites = <<>>
    /\ hkind = "free"
    /\ hpolls = 0
    /\ hnow = 0
    /\ hdeadline = 0
    /\ herr = "none"
    /\ hsawAttained = FALSE
    /\ hsawError = FALSE

\* a connected controller, about to run home(name)
HomeInit ==
    /\ hpc = "call"
    /\ hname \in ServoNames
    /\ hcfg \in HomingConfigs
    /\ hstep = 1
    /\ hwrites = <<>>
    /\ hkind \in {"third", "free"}
    /\ hpolls = 0
    /\ hnow = 0
    /\ hdeadline = 0
    /\ herr = "none"
    /\ hsawAttained = FALSE
    /\ hsawError = FALSE

hwait == <<hpolls, hnow, hdeadline, hsawAttained, hsawError>>

\* servo = self._servo(name); homing = servo.config.homing
HomeCall ==
    /\ hpc = "call"
    /\ IF hname \in ConfiguredServos
       THEN hpc' = "write" /\ herr' = herr
       ELSE hpc' = "raised" /\ herr' = "KeyError"
    /\ UNCHANGED <<hname, hcfg, hstep, hwrites, hkind, hwait>>
    /\ UNCHANGED nonHomeVars

\* one _write_sdo_int of home(); after the start-homing controlword
\* _wait_status sets its deadline
HomeWrite ==
    /\ hpc = "write"
    /\ hwrites' = Append(hwrites, HomeWrites(hcfg)[hstep])
    /\ \E ok \in IoOutcomes(hkind) :
        IF ~ok
        THEN /\ hpc' = "raised"
             /\ herr' = "SdoError"
             /\ UNCHANGED <<hstep, hnow, hdeadline>>
        ELSE /\ herr' = herr
             /\ IF hstep = Len(HomeWrites(hcfg))
                THEN /\ hpc' = "wait"
                     /\ hnow' = 0
                     /\ hdeadline' = Deadline(0, HOMING_TIMEOUT_MS)
                     /\ UNCHANGED hstep
                ELSE /\ hstep' = hstep + 1
                     /\ UNCHANGED <<hpc, hnow, hdeadline>>
    /\ UNCHANGED <<hname, hcfg, hkind, hpolls, hsawAttained, hsawError>>
    /\ UNCHANGED nonHomeVars

\* one turn of the loop of _wait_status, or its TimeoutError.  On return hnow
\* stays the time of the loop test that let the last read start; a register
\* error unwinds the loop and its clock is cleared.
HomeWaitPoll ==
    /\ hpc = "wait"
    /\ IF BeforeDeadline(hnow, hdeadline)
       THEN \/ /\ FALSE \in IoOutcomes(hkind)
               /\ hpc' = "raised"
               /\ herr' = "SdoError"
               /\ hnow' = 0
               /\ UNCHANGED <<hpolls, hsawAttained, hsawError>>
            \/ \E d \in IoDur, status \in HomeStatusAt(hkind, hpolls + 1) :
               /\ hpolls' = IF hpolls < MaxPollCount THEN hpolls + 1 ELSE hpolls
               /\ hsawAttained' = (hsawAttained \/ BitAnd(status, 12288) = 4096)
               /\ hsawError' = (hsawError \/ BitAnd(status, 8192) # 0)
               /\ herr' = herr
               /\ IF HomingAttained(status)
                  THEN hpc' = "done" /\ hnow' = hnow
                  ELSE hpc' = "wait" /\ hnow' = hnow + d + POLL_INTERVAL_MS
       ELSE /\ hpc' = "raised"
            /\ herr' = "TimeoutError"
            /\ UNCHANGED <<hpolls, hnow, hsawAttained, hsawError>>
    /\ UNCHANGED <<hname, hcfg, hstep, hwrites, hkind, hdeadline>>
    /\ UNCHANGED nonHomeVars

HomeNext ==
    \/ HomeCall
    \/ HomeWrite
    \/ HomeWaitPoll

(***************************************************************************)
(* LC10ECsvDemo._decode_state and LC10ECsvDemo._pack_outputs as functions  *)
(***************************************************************************)
\* statuswords given to _decode_state: every pattern of the bits 0..6 with
\* the higher bits clear, with bit 7, with bit 9, and with all of bits 7..15
StatusInputs == {low + high : low \in 0..127, high \in {0, 128, 512, 65408}}

\* arguments given to _pack_outputs
PackControlwords == {0, 15, 256, 32768, 65535}
PackTargets == {0, 1, -1, -500, 100000, 2147483647, -2147483647 - 1}
PackLens == {6, 7, 8}

\* the dictionary of _decode_state: masked value -> label
StateTable ==
    [k \in {0, 1, 3, 4, 64, 33, 35, 39, 7, 15, 8} |->
        CASE k = 0  -> "Not ready to switch on"
          [] k = 1  -> "Switch on disabled (step)"
          [] k = 3  -> "Switch on disabled / transition"
          [] k = 4  -> "Switch on disabled"
          [] k = 64 -> "Switch on disabled"
          [] k = 33 -> "Ready to switch on"
          [] k = 35 -> "Switched on"
          [] k = 39 -> "Operation enabled"
          [] k = 7  -> "Quick stop active"
          [] k = 15 -> "Fault reaction active"
          [] k = 8  -> "Fault"]

\* the label, and the number printed in it (-1: the label shows no number)
KnownLabel(name) == <<name, -1>>
UnknownLabel(value) == <<"Unknown", value>>

\* a _decode_state that masks with 0x004F
DecodeStateNarrowMask(status) ==
    LET state_val == BitAnd(status, 79) IN
    IF state_val \in DOMAIN StateTable
    THEN KnownLabel(StateTable[state_val]) ELSE UnknownLabel(state_val)

\* state_val = status_word & 0x006F
\* return {...}.get(state_val, f"Unknown (0x{state_val:04x})")
DecodeState(status) ==
    LET state_val == BitAnd(status, STATE_MASK) IN
    IF state_val \in DOMAIN StateTable
    THEN KnownLabel(StateTable[state_val]) ELSE UnknownLabel(state_val)

CodecQuiet ==
    /\ qpc = "off"
    /\ qstatus = 0
    /\ qlabel = <<"", -1>>
    /\ qcw = 0
    /\ qtarget = 0
    /\ qlen = 0
    /\ qbytes = <<>>

\* one of the two functions is about to be called with its arguments
CodecInit ==
    /\ qpc \in {"decode", "pack"}
    /\ qstatus \in (IF qpc = "decode" THEN StatusInputs ELSE {0})
    /\ qlabel = <<"", -1>>
    /\ qcw \in (IF qpc = "pack" THEN PackControlwords ELSE {0})
    /\ qtarget \in (IF qpc = "pack" THEN PackTargets ELSE {0})
    /\ qlen \in (IF qpc = "pack" THEN PackLens ELSE {0})
    /\ qbytes = <<>>

\* self._decode_state(status_word)
DecodeStateCall ==
    /\ qpc = "decode"
    /\ qlabel' = DecodeState(qstatus)
    /\ qpc' = "decoded"
    /\ UNCHANGED <<qstatus, qcw, qtarget, qlen, qbytes>>
    /\ UNCHANGED nonCodecVars

\* self._pack_outputs(slave, controlword, target_velocity)
PackOutputsCall ==
    /\ qpc = "pack"
    /\ IF PackRaises(qlen, qcw, qtarget)
       THEN qpc' = "raised" /\ qbytes' = qbytes
       ELSE qpc' = "packed" /\ qbytes' = PackOutputs(qlen, qcw, qtarget)
    /\ UNCHANGED <<qstatus, qlabel, qcw, qtarget, qlen>>
    /\ UNCHANGED nonCodecVars

CodecNext ==
    \/ DecodeStateCall
    \/ PackOutputsCall

(***************************************************************************)
(* _enable_drive followed by _hold_velocity as a function of what the      *)
(* exchanges deliver; two runs side by side                                *)
(***************************************************************************)
COUNTS_PER_REV == 131072     \* COUNTS_PER_REV = 131_072
LOG_PERIOD_MS == 500         \* next_log = now + 0.5

\* approx_rpm = vel_actual * 60.0 / self.COUNTS_PER_REV, as whole rpm
ApproxRpm(vel) == (vel * 60) \div COUNTS_PER_REV

\* a _reach_state that also looks at the actual velocity
ReachedStateAtSpeed(status, vel, expected) ==
    StatusMatches(status, STATE_MASK, expected) /\ vel # 0

\* _reach_state: status_word, _ = self._exchange_pd(cw, vel);
\* if (status_word & self.STATE_MASK) == expected_state: return True
ReachedState(status, vel, expected) == StatusMatches(status, STATE_MASK, expected)

\* a run before _enable_drive is called
RunStart ==
    [pc |-> "clear_faults", attempt |-> 0, stage |-> 1, now |-> 0, deadline |-> 0,
     nextLog |-> 0, sent |-> <<>>, out |-> <<>>, err |-> "none",
     shown |-> <<0, 0, 0>>]

\* the run after _exchange_pd(cw, target) was called: controlword, mode and
\* target are recorded (repeats collapsed) and the output buffer packed
Exchanged(st, cw, target) ==
    [st EXCEPT !.sent = IF Len(st.sent) > 0
                           /\ st.sent[Len(st.sent)] = <<cw, CSV_MODE, target>>
                        THEN st.sent ELSE Append(st.sent, <<cw, CSV_MODE, target>>),
               !.out = PackOutputs(PACKED_OUTPUT_BYTES, cw, target)]

RunRaised(st, e) == [st EXCEPT !.pc = "raised", !.err = e]

\* the first _reach_state, or the next one, or _hold_velocity
AfterStage(st) ==
    IF st.stage = Len(DemoStages)
    THEN [st EXCEPT !.pc = "hold", !.now = 0, !.nextLog = 0]
    ELSE [st EXCEPT !.pc = "reach", !.stage = st.stage + 1, !.now = 0,
                    !.deadline = Deadline(0, REACH_TIMEOUT_MS)]

\* One step of the run st (a turn of a loop, a ramp-down exchange or a raise)
\* when the exchange it makes, if it makes one, succeeds or not (ok), takes d
\* ms and delivers the raw statusword and the raw actual velocity.
RunStep(st, target, duration, inl, ok, d, rawStatus, rawVel) ==
    LET status == UnpackStatus(inl, rawStatus)
        vel == UnpackVelocity(inl, rawVel)
    IN
    CASE st.pc = "clear_faults" ->
            IF st.attempt >= FAULT_RESET_ATTEMPTS THEN RunRaised(st, "FaultNotCleared")
            ELSE LET x == Exchanged(st, CONTROLWORD_FAULT_RESET, 0) IN
                 IF ~ok THEN RunRaised(x, "TransportError")
                 ELSE IF FaultCleared(status)
                 THEN [x EXCEPT !.pc = "reach", !.stage = 1, !.attempt = 0, !.now = 0,
                                !.deadline = Deadline(0, REACH_TIMEOUT_MS)]
                 ELSE [x EXCEPT !.attempt = st.attempt + 1]
      [] st.pc = "reach" ->
            IF ~BeforeDeadline(st.now, st.deadline)
            THEN RunRaised(st, DemoStages[st.stage].err)
            ELSE LET x == Exchanged(st, DemoStages[st.stage].cw,
                                    StageVelocity(st.stage, target)) IN
                 IF ~ok THEN RunRaised(x, "TransportError")
                 ELSE IF ReachedState(status, vel, DemoStages[st.stage].expected)
                 THEN AfterStage(x)
                 ELSE [x EXCEPT !.now = st.now + d + REACH_SLEEP_MS]
      [] st.pc = "hold" ->
            IF ~HoldContinues(st.now, 0, duration)
            THEN [st EXCEPT !.pc = "ramp_zero"]
            ELSE LET x == Exchanged(st, CONTROLWORD_ENABLE, target) IN
                 IF ~ok THEN RunRaised(x, "TransportError")
                 ELSE IF st.now + d >= st.nextLog
                 THEN [x EXCEPT !.shown = <<status, vel, ApproxRpm(vel)>>,
                                !.nextLog = st.now + d + LOG_PERIOD_MS,
                                !.now = st.now + d + HOLD_SLEEP_MS]
                 ELSE [x EXCEPT !.now = st.now + d + HOLD_SLEEP_MS]
      [] st.pc = "ramp_zero" ->
            LET x == Exchanged(st, CONTROLWORD_ENABLE, 0) IN
            IF ~ok THEN RunRaised(x, "TransportError")
            ELSE [x EXCEPT !.pc = "ramp_shutdown"]
      [] st.pc = "ramp_shutdown" ->
            LET x == Exchanged(st, CONTROLWORD_SHUTDOWN, 0) IN
            IF ~ok THEN RunRaised(x, "TransportError")
            ELSE [x EXCEPT !.pc = "returned"]
      [] OTHER -> st

PairQuiet ==
    /\ runA = [RunStart EXCEPT !.pc = "off"]
    /\ runB = [RunStart EXCEPT !.pc = "off"]
    /\ vtarget = 0
    /\ vduration = 0
    /\ vinLen = 0

\* both runs about to call _enable_drive(target_velocity); the input buffer
\* holds the statusword and the actual velocity
PairInit ==
    /\ runA = RunStart
    /\ runB = RunStart
    /\ vtarget \in Targets
    /\ vduration \in Durations
    /\ vinLen = PACKED_INPUT_BYTES

\* what the drive reports to the two runs: a fault, nothing, and the three
\* states _enable_drive waits for
PairStatuses == {0, 8, 33, 35, 39}

\* an exchange returns at once or after the longest blocking read
PairIoDur == {0, MaxIoMs}

\* both runs take their next step: the exchanges take the same time and
\* deliver the same statusword, but each its own actual velocity
PairStep ==
    /\ runA.pc \notin {"off", "returned", "raised"}
    /\ \E d \in PairIoDur, rawStatus \in PairStatuses :
       \E velA \in Velocities, velB \in Velocities :
        /\ runA' = RunStep(runA, vtarget, vduration, vinLen, TRUE, d, rawStatus, velA)
        /\ runB' = RunStep(runB, vtarget, vduration, vinLen, TRUE, d, rawStatus, velB)
    /\ UNCHANGED <<vtarget, vduration, vinLen>>
    /\ UNCHANGED nonPairVars

\* both runs take their next step and the exchange, if the step makes one,
\* raises in both: send_processdata or receive_processdata fails alike
PairFail ==
    /\ runA.pc \notin {"off", "returned", "raised"}
    /\ runA' = RunStep(runA, vtarget, vduration, vinLen, FALSE, 0, 0, 0)
    /\ runB' = RunStep(runB, vtarget, vduration, vinLen, FALSE, 0, 0, 0)
    /\ runA' # runA
    /\ UNCHANGED <<vtarget, vduration, vinLen>>
    /\ UNCHANGED nonPairVars

PairNext == PairStep \/ PairFail

(***************************************************************************)
(* load() and the EtherCATController: connect, shutdown and the servo      *)
(* operations, call after call.  The clock of _wait_status is an input     *)
(* here: after the first read of the statusword the loop test may find the *)
(* deadline passed at any turn (the timing of the wait is modelled with    *)
(* enable_drive and home above).                                           *)
(***************************************************************************)
MODE_PROFILE_POSITION == 1     \* MODE_PROFILE_POSITION = 1
MODE_PROFILE_VELOCITY == 3     \* MODE_PROFILE_VELOCITY = 3

\* Calls made on one controller after load() at most.
MaxCalls == 3

\* Limits(): the defaults of the dataclass
DefaultLimits ==
    [max_rpm |-> 3000, accel_rpm_s |-> 1000, decel_rpm_s |-> 1000,
     pos_min |-> <<>>, pos_max |-> <<>>]

\* the limits of default_setup_template(), with position bounds
BoundedLimits ==
    [max_rpm |-> 3000, accel_rpm_s |-> 1000, decel_rpm_s |-> 1000,
     pos_min |-> <<-100000>>, pos_max |-> <<100000>>]

\* limits of a setup file with a negative acceleration
NegativeLimits ==
    [max_rpm |-> 3000, accel_rpm_s |-> -1, decel_rpm_s |-> 1000,
     pos_min |-> <<>>, pos_max |-> <<>>]

DefaultHoming ==
    [method |-> 35, offset |-> 0, speed_fast |-> <<>>, speed_slow |-> <<>>,
     accel |-> <<>>]

FullHoming ==
    [method |-> 17, offset |-> 100, speed_fast |-> <<500>>, speed_slow |-> <<100>>,
     accel |-> <<2000>>]

\* _dict_to_servo: ("name", "alias", "position", "esi")
RequiredServoKeys == {"name", "alias", "position", "esi"}

\* load_setup: "network_interface" not in data or "servos" not in data
RequiredSetupKeys == {"network_interface", "servos"}

\* two entries of "servos" in a setup JSON: the keys present, their values,
\* and whether the file named by "esi" exists
ItemA ==
    [keys |-> RequiredServoKeys, name |-> "a", alias |-> 0, position |-> 0,
     esiExists |-> TRUE, limits |-> BoundedLimits, homing |-> FullHoming]

ItemB ==
    [keys |-> RequiredServoKeys, name |-> "b", alias |-> 0, position |-> 1,
     esiExists |-> TRUE, limits |-> DefaultLimits, homing |-> DefaultHoming]

SetupFile(keys, servos) == [exists |-> TRUE, keys |-> keys, servos |-> servos]

\* setup files: complete ones with one or two servos, and ones with a
\* missing file, a missing top-level key, a missing servo key or a missing
\* ESI file
CompleteSetups ==
    { SetupFile(RequiredSetupKeys, <<ItemA>>),
      SetupFile(RequiredSetupKeys, <<ItemA, ItemB>>),
      SetupFile(RequiredSetupKeys, <<ItemA, [ItemB EXCEPT !.limits = NegativeLimits]>>) }

DefectiveSetups ==
    { [SetupFile(RequiredSetupKeys, <<ItemA>>) EXCEPT !.exists = FALSE] }
    \cup { SetupFile(RequiredSetupKeys \ {k}, <<ItemA>>) : k \in RequiredSetupKeys }
    \cup { SetupFile(RequiredSetupKeys, <<ItemA, [ItemB EXCEPT !.keys = @ \ {k}]>>) :
             k \in RequiredServoKeys }
    \cup { SetupFile(RequiredSetupKeys, <<ItemA, [ItemB EXCEPT !.esiExists = FALSE]>>) }

SetupDatas == CompleteSetups \cup DefectiveSetups

\* the (alias, position) of the devices config_init finds
SessBuses == { <<>>, << <<0, 0>> >>, << <<0, 0>>, <<0, 1>> >> }

SessNames == {"a", "b", "ghost"}
Positions == {5000, 150000}

\* statuswords a drive shows: fault, ready to switch on, switched on,
\* operation enabled, operation enabled with homing attained (0x1237)
SessStatuses == {8, 33, 35, 39, 4663}

\* ServoConfig(name=data["name"], alias=int(data["alias"]), ...)
ServoOf(item) ==
    [name |-> item.name, alias |-> item.alias, position |-> item.position,
     esiExists |-> item.esiExists, limits |-> item.limits, homing |-> item.homing]

\* a _dict_to_servo without its test for missing fields
DictToServoUnchecked(item) == [err |-> "none", servo |-> ServoOf(item)]

\* _dict_to_servo(data): ValueError when a required field is missing
DictToServo(item) ==
    IF RequiredServoKeys \subseteq item.keys
    THEN [err |-> "none", servo |-> ServoOf(item)]
    ELSE [err |-> "ValueError", servo |-> <<>>]

\* load_setup(path): the servo configs, or the exception it raises
LoadSetup(data) ==
    IF ~data.exists THEN [err |-> "FileNotFoundError", servos |-> <<>>]
    ELSE IF ~(RequiredSetupKeys \subseteq data.keys)
    THEN [err |-> "ValueError", servos |-> <<>>]
    ELSE IF \E i \in 1..Len(data.servos) : DictToServo(data.servos[i]).err # "none"
    THEN [err |-> "ValueError", servos |-> <<>>]
    ELSE [err |-> "none",
          servos |-> [i \in 1..Len(data.servos) |-> DictToServo(data.servos[i]).servo]]

\* ensure_esies_exist: missing = [p for p in paths if not p...exists()]
EsiMissing(servos) == \E i \in 1..Len(servos) : ~servos[i].esiExists

\* a _find_slave that compares the alias only
FindSlaveByAlias(bus, alias, position) ==
    LET hits == {i \in 1..Len(bus) : bus[i][1] = alias}
    IN IF hits = {} THEN 0 ELSE CHOOSE i \in hits : \A j \in hits : i <= j

\* _find_slave(alias, position): the first slave with this alias and this
\* position, 0 for the RuntimeError
FindSlave(bus, alias, position) ==
    LET hits == {i \in 1..Len(bus) : bus[i] = <<alias, position>>}
    IN IF hits = {} THEN 0 ELSE CHOOSE i \in hits : \A j \in hits : i <= j

\* the names of self.servos, last inserted first
HandleNamesReversed(servos) ==
    [i \in 1..Len(servos) |-> servos[Len(servos) + 1 - i].name]

\* the names of self.servos, in insertion order
HandleNames(servos) == [i \in 1..Len(servos) |-> servos[i].name]

HasHandle(servos, name) == \E i \in 1..Len(servos) : servos[i].name = name

\* self.servos[name]
HandleOf(servos, name) ==
    servos[CHOOSE i \in 1..Len(servos) : servos[i].name = name]

\* self.servos[cfg.name] = ServoHandle(cfg, slave): an existing key keeps its
\* place in the dict
DictPut(servos, h) ==
    IF HasHandle(servos, h.name)
    THEN [i \in 1..Len(servos) |-> IF servos[i].name = h.name THEN h ELSE servos[i]]
    ELSE Append(servos, h)

\* size and signed of the _write_sdo_int call that writes this index:
\* 0x6060 (1, signed), 0x6098 (1), 0x6040 (2), 0x607A and 0x60FF (4, signed),
\* every other register (4)
RegisterFormat(index) ==
    CASE index = 24672 -> [size |-> 1, signed |-> TRUE]
      [] index = 24728 -> [size |-> 1, signed |-> FALSE]
      [] index = 24640 -> [size |-> 2, signed |-> FALSE]
      [] index \in {24698, 24831} -> [size |-> 4, signed |-> TRUE]
      [] OTHER -> [size |-> 4, signed |-> FALSE]

\* value.to_bytes(size, byteorder="little", signed=signed) raises
\* OverflowError (4-byte values stay within 32 bits here)
ToBytesRaises(value, size, signed) ==
    IF signed
    THEN size < 4 /\ (value < -(2 ^ (8 * size - 1)) \/ value >= 2 ^ (8 * size - 1))
    ELSE value < 0 \/ (size < 4 /\ value >= 2 ^ (8 * size))

\* _write_controlword(servo, value): 0x6040
CwWrite(value) == <<24640, 0, value>>

\* _set_mode(servo, mode): 0x6060
ModeWrite(mode) == <<24672, 0, mode>>

\* _write_profile_limits: 0x6081, 0x6083, 0x6084
ProfileLimitWrites(limits) ==
    << <<24705, 0, limits.max_rpm>>, <<24707, 0, limits.accel_rpm_s>>,
       <<24708, 0, limits.decel_rpm_s>> >>

\* a set_target_position that triggers the set-point before the limits and
\* the target are written
SetTargetPositionWritesEager(cfg, position) ==
    << ModeWrite(MODE_PROFILE_POSITION), CwWrite(63), CwWrite(31),
       <<24698, 0, position>> >>
    \o ProfileLimitWrites(cfg.limits)

\* set_target_position: mode, limits, 0x607A, controlwords 0x003F and 0x001F
SetTargetPositionWrites(cfg, position) ==
    << ModeWrite(MODE_PROFILE_POSITION) >>
    \o ProfileLimitWrites(cfg.limits)
    \o << <<24698, 0, position>>, CwWrite(63), CwWrite(31) >>

\* set_target_velocity: mode, limits, 0x60FF, controlword 0x000F
SetTargetVelocityWrites(cfg, velocity) ==
    << ModeWrite(MODE_PROFILE_VELOCITY) >>
    \o ProfileLimitWrites(cfg.limits)
    \o << <<24831, 0, velocity>>, CwWrite(15) >>

\* The register accesses of an operation as segments: the writes of a
\* segment, then the _wait_status (mask, value) that follows them, if any.
OpSegments(op, cfg, arg) ==
    CASE op \in {"enable_drive", "enable_all"} ->
            [i \in 1..Len(EnableSequence) |->
                [writes |-> << CwWrite(EnableSequence[i].cw) >>,
                 wait |-> <<EnableSequence[i].mask, EnableSequence[i].value>>]]
      [] op = "quick_stop" ->
            << [writes |-> << CwWrite(11) >>, wait |-> <<>>] >>
      [] op = "set_target_position" ->
            << [writes |-> SetTargetPositionWrites(cfg, arg), wait |-> <<>>] >>
      [] op = "set_target_velocity" ->
            << [writes |-> SetTargetVelocityWrites(cfg, arg), wait |-> <<>>] >>
      [] op = "home" ->
            << [writes |-> HomeWrites(cfg.homing),
                wait |-> <<HOMING_MASK, HOMING_ATTAINED>>] >>

NoCall == [op |-> "none", name |-> "", arg |-> 0]

\* the calls a user of the controller makes on a servo
OpCalls ==
    { [op |-> "enable_all", name |-> "", arg |-> 0] }
    \cup { [op |-> o, name |-> n, arg |-> 0] :
             o \in {"enable_drive", "quick_stop", "home"}, n \in SessNames }
    \cup { [op |-> "set_target_position", name |-> n, arg |-> x] :
             n \in SessNames, x \in Positions }
    \cup { [op |-> "set_target_velocity", name |-> n, arg |-> x] :
             n \in SessNames, x \in Targets }

\* the Master is open: open() has returned and close() was not called
MasterLive(m) == m # 0 /\ smasters[m].opened /\ smasters[m].closes = 0

\* an entry of the activity log: what was called, on which Master and slave,
\* the register and value where there is one, and whether the Master was
\* open at the time
BusEntry(kind, m, slave, index, sub, value) ==
    <<kind, m, slave, index, sub, value, MasterLive(m)>>

\* the log with the entry appended, a repeated statusword read collapsed
Logged(entry) ==
    IF Len(slog) > 0 /\ slog[Len(slog)] = entry /\ entry[1] = "read"
    THEN slog ELSE Append(slog, entry)

\* master.state_check(state, timeout) returns the state reached: the one
\* asked for, or the one below it
StateCheckResults(state) == {state, state \div 2}

sdevice == <<sdata, sconnect, sbus>>
sobject == <<ssetup, smaster, smasters, sservos>>
sprogress == <<squeue, sseg, sstep, spolled>>

SessQuiet ==
    /\ spc = "off"
    /\ sdata = SetupFile({}, <<>>)
    /\ sconnect = FALSE
    /\ sbus = <<>>
    /\ ssetup = <<>>
    /\ smaster = 0
    /\ smasters = <<>>
    /\ sservos = <<>>
    /\ scall = NoCall
    /\ squeue = <<>>
    /\ sseg = 1
    /\ sstep = 1
    /\ spolled = FALSE
    /\ slog = <<>>
    /\ serr = "none"
    /\ scalls = 0

\* load(setup_path, connect, prompt_on_missing=False) is about to be called
SessInit ==
    /\ spc = "load"
    /\ sdata \in SetupDatas
    /\ sconnect \in BOOLEAN
    /\ sbus \in SessBuses
    /\ ssetup = <<>>
    /\ smaster = 0
    /\ smasters = <<>>
    /\ sservos = <<>>
    /\ scall = [NoCall EXCEPT !.op = "load"]
    /\ squeue = <<>>
    /\ sseg = 1
    /\ sstep = 1
    /\ spolled = FALSE
    /\ slog = <<>>
    /\ serr = "none"
    /\ scalls = 0

\* an exception leaves the running call; when the call is load() the
\* controller is lost with it
SessRaise(e) ==
    /\ serr' = e
    /\ spc' = IF scall.op = "load" THEN "failed" ELSE "idle"

\* the running call returns
SessReturn ==
    /\ serr' = "none"
    /\ spc' = "idle"

\* load(): config = load_setup(path); controller = EtherCATController(config);
\* if connect: controller.connect()
LoadCall ==
    /\ spc = "load"
    /\ LET r == LoadSetup(sdata) IN
       IF r.err # "none"
       THEN /\ SessRaise(r.err)
            /\ UNCHANGED ssetup
       ELSE /\ ssetup' = r.servos
            /\ serr' = "none"
            /\ spc' = IF sconnect THEN "c_esi" ELSE "idle"
    /\ UNCHANGED <<sdevice, smaster, smasters, sservos, scall, sprogress, slog, scalls>>
    /\ UNCHANGED nonSessVars

\* controller.connect() is called
ConnectCall ==
    /\ spc = "idle"
    /\ scalls < MaxCalls
    /\ scalls' = scalls + 1
    /\ scall' = [NoCall EXCEPT !.op = "connect"]
    /\ slog' = <<>>
    /\ serr' = "none"
    /\ spc' = "c_esi"
    /\ UNCHANGED <<sdevice, sobject, sprogress>>
    /\ UNCHANGED nonSessVars

\* ensure_esies_exist([servo.esi for servo in self.setup.servos])
ConnectEsi ==
    /\ spc = "c_esi"
    /\ IF EsiMissing(ssetup)
       THEN SessRaise("FileNotFoundError")
       ELSE spc' = "c_open" /\ serr' = serr
    /\ UNCHANGED <<sdevice, sobject, scall, sprogress, slog, scalls>>
    /\ UNCHANGED nonSessVars

\* self.master = pysoem.Master(); self.master.open(...): the new Master
\* replaces the one self.master held; open() returns or raises
ConnectOpen ==
    /\ spc = "c_open"
    /\ smaster' = Len(smasters) + 1
    /\ \E ok \in BOOLEAN :
        /\ smasters' = Append(smasters, [opened |-> ok, closes |-> 0])
        /\ slog' = Append(slog, <<"open", Len(smasters) + 1, 0, 0, 0, 0, ok>>)
        /\ IF ok THEN spc' = "c_init" /\ serr' = serr
                 ELSE SessRaise("ConnectionError")
    /\ UNCHANGED <<sdevice, ssetup, sservos, scall, sprogress, scalls>>
    /\ UNCHANGED nonSessVars

\* if not self.master.config_init(): raise RuntimeError
ConnectConfigInit ==
    /\ spc = "c_init"
    /\ slog' = Append(slog, BusEntry("config_init", smaster, 0, 0, 0, Len(sbus)))
    /\ IF Len(sbus) = 0
       THEN SessRaise("NoSlavesFound")
       ELSE spc' = "c_map" /\ serr' = serr
    /\ UNCHANGED <<sdevice, sobject, scall, sprogress, scalls>>
    /\ UNCHANGED nonSessVars

\* self.master.config_map()
ConnectConfigMap ==
    /\ spc = "c_map"
    /\ slog' = Append(slog, BusEntry("config_map", smaster, 0, 0, 0, 0))
    /\ \E ok \in BOOLEAN :
        IF ok THEN spc' = "c_safeop" /\ serr' = serr
              ELSE SessRaise("ConfigMapError")
    /\ UNCHANGED <<sdevice, sobject, scall, sprogress, scalls>>
    /\ UNCHANGED nonSessVars

\* self.master.state = pysoem.SAFEOP_STATE; self.master.write_state()
ConnectSafeOpWrite ==
    /\ spc = "c_safeop"
    /\ slog' = Append(slog, BusEntry("write_state", smaster, 0, 0, 0, SAFEOP_STATE))
    /\ spc' = "c_safeop_check"
    /\ UNCHANGED <<sdevice, sobject, scall, sprogress, serr, scalls>>
    /\ UNCHANGED nonSessVars

\* self.master.state_check(pysoem.SAFEOP_STATE, 5_000_000): the value
\* returned is not used
ConnectSafeOpCheck ==
    /\ spc = "c_safeop_check"
    /\ \E result \in StateCheckResults(SAFEOP_STATE) :
        slog' = Append(slog, BusEntry("state_check", smaster, 0, 0, SAFEOP_STATE, result))
    /\ spc' = "c_bind"
    /\ sstep' = 1
    /\ UNCHANGED <<sdevice, sobject, scall, squeue, sseg, spolled, serr, scalls>>
    /\ UNCHANGED nonSessVars

\* for cfg in self.setup.servos: slave = self._find_slave(cfg.alias,
\* cfg.position); self.servos[cfg.name] = ServoHandle(cfg, slave)
ConnectBind ==
    /\ spc = "c_bind"
    /\ IF sstep > Len(ssetup)
       THEN /\ spc' = "c_op"
            /\ sstep' = 1
            /\ UNCHANGED <<sservos, serr>>
       ELSE LET cfg == ssetup[sstep]
                slave == FindSlave(sbus, cfg.alias, cfg.position)
            IN IF slave = 0
               THEN /\ SessRaise("NoSlaveFound")
                    /\ sstep' = 1
                    /\ UNCHANGED sservos
               ELSE /\ sservos' = DictPut(sservos, [name |-> cfg.name, master |-> smaster,
                                                   slave |-> slave, config |-> cfg])
                    /\ sstep' = sstep + 1
                    /\ UNCHANGED <<spc, serr>>
    /\ UNCHANGED <<sdevice, ssetup, smaster, smasters, scall, squeue, sseg, spolled,
                   slog, scalls>>
    /\ UNCHANGED nonSessVars

\* self.master.state = pysoem.OP_STATE; self.master.write_state()
ConnectOpWrite ==
    /\ spc = "c_op"
    /\ slog' = Append(slog, BusEntry("write_state", smaster, 0, 0, 0, OP_STATE))
    /\ spc' = "c_op_check"
    /\ UNCHANGED <<sdevice, sobject, scall, sprogress, serr, scalls>>
    /\ UNCHANGED nonSessVars

\* self.master.state_check(pysoem.OP_STATE, 5_000_000); connect returns
ConnectOpCheck ==
    /\ spc = "c_op_check"
    /\ \E result \in StateCheckResults(OP_STATE) :
        slog' = Append(slog, BusEntry("state_check", smaster, 0, 0, OP_STATE, result))
    /\ SessReturn
    /\ UNCHANGED <<sdevice, sobject, scall, sprogress, scalls>>
    /\ UNCHANGED nonSessVars

\* shutdown(): if self.master: self.master.close(); self.master = None
Shutdown ==
    /\ spc = "idle"
    /\ scalls < MaxCalls
    /\ scalls' = scalls + 1
    /\ scall' = [NoCall EXCEPT !.op = "shutdown"]
    /\ serr' = "none"
    /\ IF smaster # 0
       THEN /\ slog' = << BusEntry("close", smaster, 0, 0, 0, 0) >>
            /\ smasters' = [smasters EXCEPT ![smaster].closes = @ + 1]
            /\ smaster' = 0
       ELSE /\ slog' = <<>>
            /\ UNCHANGED <<smaster, smasters>>
    /\ UNCHANGED <<sdevice, ssetup, sservos, sprogress, spc>>
    /\ UNCHANGED nonSessVars

\* a servo operation is called
OpCall ==
    /\ spc = "idle"
    /\ scalls < MaxCalls
    /\ scalls' = scalls + 1
    /\ \E c \in OpCalls :
        /\ scall' = c
        /\ IF c.op = "enable_all"
           THEN spc' = "o_loop" /\ squeue' = HandleNames(sservos)
           ELSE spc' = "o_servo" /\ squeue' = <<>>
    /\ slog' = <<>>
    /\ serr' = "none"
    /\ sseg' = 1
    /\ sstep' = 1
    /\ spolled' = FALSE
    /\ UNCHANGED <<sdevice, sobject>>
    /\ UNCHANGED nonSessVars

\* enable_all: for name in self.servos: self.enable_drive(name)
EnableAllLoop ==
    /\ spc = "o_loop"
    /\ IF squeue = <<>>
       THEN /\ SessReturn
            /\ UNCHANGED <<scall, squeue>>
       ELSE /\ scall' = [scall EXCEPT !.name = Head(squeue)]
            /\ squeue' = Tail(squeue)
            /\ spc' = "o_servo"
            /\ serr' = serr
    /\ UNCHANGED <<sdevice, sobject, sseg, sstep, spolled, slog, scalls>>
    /\ UNCHANGED nonSessVars

\* servo = self._servo(name): KeyError when the name is not in self.servos
ServoLookup ==
    /\ spc = "o_servo"
    /\ IF HasHandle(sservos, scall.name)
       THEN spc' = "o_write" /\ serr' = serr
       ELSE SessRaise("KeyError")
    /\ sseg' = 1
    /\ sstep' = 1
    /\ UNCHANGED <<sdevice, sobject, scall, squeue, spolled, slog, scalls>>
    /\ UNCHANGED nonSessVars

\* the segments of the running operation on the servo it named
RunningSegments ==
    OpSegments(scall.op, HandleOf(sservos, scall.name).config, scall.arg)

\* where the call goes when a segment is complete: the next segment, the
\* next servo of enable_all, or back to the caller
AfterSegment ==
    IF sseg < Len(RunningSegments)
    THEN /\ sseg' = sseg + 1
         /\ sstep' = 1
         /\ spc' = "o_write"
         /\ serr' = serr
    ELSE /\ sseg' = 1
         /\ sstep' = 1
         /\ IF scall.op = "enable_all"
            THEN spc' = "o_loop" /\ serr' = serr
            ELSE SessReturn

\* one _write_sdo_int: data = value.to_bytes(...); servo.slave.sdo_write(...)
OpWrite ==
    /\ spc = "o_write"
    /\ LET h == HandleOf(sservos, scall.name)
           seg == RunningSegments[sseg]
           w == seg.writes[sstep]
           fmt == RegisterFormat(w[1])
       IN IF ToBytesRaises(w[3], fmt.size, fmt.signed)
          THEN /\ SessRaise("OverflowError")
               /\ UNCHANGED <<slog, sseg, sstep, spolled>>
          ELSE /\ slog' = Logged(BusEntry("write", h.master, h.slave, w[1], w[2], w[3]))
               /\ \E ok \in BOOLEAN :
                   IF ~ok
                   THEN /\ SessRaise("SdoError")
                        /\ UNCHANGED <<sseg, sstep, spolled>>
                   ELSE IF sstep < Len(seg.writes)
                   THEN /\ sstep' = sstep + 1
                        /\ UNCHANGED <<spc, serr, sseg, spolled>>
                   ELSE IF seg.wait # <<>>
                   THEN /\ spc' = "o_wait"
                        /\ spolled' = FALSE
                        /\ UNCHANGED <<serr, sseg, sstep>>
                   ELSE /\ AfterSegment
                        /\ UNCHANGED spolled
    /\ UNCHANGED <<sdevice, sobject, scall, squeue, scalls>>
    /\ UNCHANGED nonSessVars

\* one turn of the loop of _wait_status: the statusword is read and compared
OpWaitPoll ==
    /\ spc = "o_wait"
    /\ LET h == HandleOf(sservos, scall.name)
           seg == RunningSegments[sseg]
       IN /\ slog' = Logged(BusEntry("read", h.master, h.slave, 24641, 0, 0))
          /\ \/ /\ SessRaise("SdoError")
                /\ UNCHANGED <<sseg, sstep>>
             \/ \E status \in SessStatuses :
                 IF StatusMatches(status, seg.wait[1], seg.wait[2])
                 THEN AfterSegment
                 ELSE UNCHANGED <<spc, serr, sseg, sstep>>
    /\ spolled' = TRUE
    /\ UNCHANGED <<sdevice, sobject, scall, squeue, scalls>>
    /\ UNCHANGED nonSessVars

\* the loop test of _wait_status finds the deadline passed: TimeoutError
OpWaitTimeout ==
    /\ spc = "o_wait"
    /\ spolled
    /\ SessRaise("TimeoutError")
    /\ UNCHANGED <<sdevice, sobject, scall, sprogress, slog, scalls>>
    /\ UNCHANGED nonSessVars

SessNext ==
    \/ LoadCall
    \/ ConnectCall
    \/ ConnectEsi
    \/ ConnectOpen
    \/ ConnectConfigInit
    \/ ConnectConfigMap
    \/ ConnectSafeOpWrite
    \/ ConnectSafeOpCheck
    \/ ConnectBind
    \/ ConnectOpWrite
    \/ ConnectOpCheck
    \/ Shutdown
    \/ OpCall
    \/ EnableAllLoop
    \/ ServoLookup
    \/ OpWrite
    \/ OpWaitPoll
    \/ OpWaitTimeout

(***************************************************************************)
(* Specifications: one per part of the program; the other parts stand      *)
(* still.                                                                  *)
(***************************************************************************)
\* the parts that stand still in every specification below but their own
OthersQuiet == XchgQuiet /\ HomeQuiet /\ CodecQuiet /\ PairQuiet /\ SessQuiet

InitCtl == CtlInit /\ MapQuiet /\ DemoQuiet /\ MainQuiet /\ OthersQuiet

SpecCtl == InitCtl /\ [][CtlNext]_vars

InitMap == MapInit /\ CtlQuiet /\ DemoQuiet /\ MainQuiet /\ OthersQuiet

SpecMap == InitMap /\ [][MapNext]_vars

InitDemo ==
    DemoInit /\ MapStart({OdFactory}) /\ CtlQuiet /\ MainQuiet /\ OthersQuiet

SpecDemo == InitDemo /\ [][DemoNext]_vars

InitMain == MainInit /\ CtlQuiet /\ MapQuiet /\ DemoQuiet /\ OthersQuiet

SpecMain == InitMain /\ [][MainNext]_vars

\* the four parts above, standing still
FirstQuiet == CtlQuiet /\ MapQuiet /\ DemoQuiet /\ MainQuiet

InitXchg ==
    XchgInit /\ FirstQuiet /\ HomeQuiet /\ CodecQuiet /\ PairQuiet /\ SessQuiet

SpecXchg == InitXchg /\ [][XchgNext]_vars

InitHome ==
    HomeInit /\ FirstQuiet /\ XchgQuiet /\ CodecQuiet /\ PairQuiet /\ SessQuiet

SpecHome == InitHome /\ [][HomeNext]_vars

InitCodec ==
    CodecInit /\ FirstQuiet /\ XchgQuiet /\ HomeQuiet /\ PairQuiet /\ SessQuiet

SpecCodec == InitCodec /\ [][CodecNext]_vars

InitPair ==
    PairInit /\ FirstQuiet /\ XchgQuiet /\ HomeQuiet /\ CodecQuiet /\ SessQuiet

SpecPair == InitPair /\ [][PairNext]_vars

InitSess ==
    SessInit /\ FirstQuiet /\ XchgQuiet /\ HomeQuiet /\ CodecQuiet /\ PairQuiet

SpecSess == InitSess /\ [][SessNext]_vars

(***************************************************************************)
(* Claims about EtherCATController.enable_drive (checked under SpecCtl)    *)
(***************************************************************************)
\* The drive's statusword satisfies none of the three stages' tests.
NeverMatches(status) ==
    \A i \in 1..Len(EnableSequence) :
        ~StatusMatches(status, EnableSequence[i].mask, EnableSequence[i].value)

EnableDriveEnded == cname \in ConfiguredServos /\ cpc \in {"done", "raised"}

\* C1: against a drive that answers each controlword write (0x0006, 0x0007,
\* 0x000F) with the matching statusword (0x0021, 0x0023, 0x0027 under 0x006F)
\* by the next poll, enable_drive returns normally and the drive is left in
\* OperationEnabled.
C1_CoopDriveIsEnabled ==
    (devKind = "coop" /\ EnableDriveEnded)
        => (cpc = "done" /\ BitAnd(dev, 111) = 39)

\* C2 as stated: against a drive whose statusword never changes and never
\* matches, enable_drive ends with the timeout error no later than the stage
\* timeout plus one poll interval, having written 0x0006 once and never
\* 0x0007 or 0x000F.
C2_TimeoutWithinOnePoll ==
    (devKind = "stuck" /\ NeverMatches(dev) /\ EnableDriveEnded)
        => /\ cerr = "TimeoutError"
           /\ cnow <= STAGE_TIMEOUT_MS + POLL_INTERVAL_MS
           /\ cwLog = <<6>>

\* C2 as amended: against such a drive the wait never runs past the stage
\* timeout plus one poll interval plus the time its last statusword read
\* blocked; enable_drive never returns normally, the only error it ends with
\* is the timeout error, 0x0006 is written once and nothing else is written.
C2_TimeoutWithinPollAndRead ==
    (devKind = "stuck" /\ NeverMatches(dev) /\ cname \in ConfiguredServos)
        => /\ cnow < cdeadline + POLL_INTERVAL_MS + clastRead
           /\ cpc # "done"
           /\ (cpc = "raised" => cerr = "TimeoutError" /\ cnow >= cdeadline)
           /\ (cpc \in {"wait", "raised"} => cwLog = <<6>>)
           /\ (cpc \in {"idle", "write"} => cwLog = <<>>)

\* C2 witness: the timeout was raised later than timeout + one poll interval.
C2_Witness ==
    /\ devKind = "stuck" /\ NeverMatches(dev)
    /\ cpc = "raised" /\ cerr = "TimeoutError"
    /\ cwLog = <<6>>
    /\ cnow > STAGE_TIMEOUT_MS + POLL_INTERVAL_MS

\* C3: enable_drive is FaultReset -> Shutdown -> SwitchOn -> EnableOperation:
\* 0x0006 is never written to a drive whose fault bit is set, and the
\* controlword of stage i+1 is written only after stage i's statusword was seen.
C3_NoShutdownWhileFaulted ==
    /\ ~cfaultAtShutdown
    /\ Len(cwLog) <= cstage

(***************************************************************************)
(* Claims about LC10ECsvDemo._map_pdos (checked under SpecMap)             *)
(***************************************************************************)
IsPrefix(s, t) == Len(s) <= Len(t) /\ \A i \in 1..Len(s) : s[i] = t[i]

\* the unsigned value of a little-endian byte string
RECURSIVE LEValue(_)
LEValue(bytes) ==
    IF bytes = <<>> THEN 0 ELSE Head(bytes) + 256 * LEValue(Tail(bytes))

\* a write as (index, subindex, value written)
WriteTriple(w) == <<w.index, w.sub, LEValue(w.data)>>

\* The order claimed for one direction: assignment count := 0, entry count := 0,
\* the entries at subindex 1..n, entry count := n, assignment 1 := mapping
\* object, assignment count := 1.
ClaimedDirectionOrder(sm, map, entries) ==
    << <<sm, 0, 0>>, <<map, 0, 0>> >>
    \o [i \in 1..Len(entries) |-> <<map, i, entries[i]>>]
    \o << <<map, 0, Len(entries)>>, <<sm, 1, map>>, <<sm, 0, 1>> >>

\* receive direction 0x1C12/0x1600 (controlword, mode, target velocity), then
\* transmit direction 0x1C13/0x1A00 (statusword, velocity actual value)
ClaimedPdoOrder ==
    ClaimedDirectionOrder(7186, 5632, <<1614807056, 1616904200, 1627324448>>)
    \o ClaimedDirectionOrder(7187, 6656, <<1614872592, 1617690656>>)

IsPdoWrite(w) == w.index \in {7186, 5632, 7187, 6656}

PdoWritesIssued ==
    LET pdo == SelectSeq(mlog, IsPdoWrite) IN [i \in 1..Len(pdo) |-> WriteTriple(pdo[i])]

\* C9: _map_pdos writes, for the receive direction and then for the transmit
\* direction, assignment count := 0, entry count := 0, the entries at
\* subindex 1..n in ascending order, entry count := n, assignment subindex 1 :=
\* mapping object, assignment count := 1; nothing is skipped or reordered.
C9_MapPdosOrder ==
    /\ IsPrefix(PdoWritesIssued, ClaimedPdoOrder)
    /\ (mpc = "run" /\ mstep <= Len(ClaimedPdoOrder) => Len(PdoWritesIssued) = mstep - 1)
    /\ (mpc = "done" => PdoWritesIssued = ClaimedPdoOrder)

\* C9 witness: a call of _map_pdos ran to its end
C9_Witness ==
    /\ mpc = "done"
    /\ Len(PdoWritesIssued) = Len(ClaimedPdoOrder)
    /\ mfails = 0

\* the object dictionary a single run without failures leaves behind
RECURSIVE ApplyFrom(_, _)
ApplyFrom(dict, i) ==
    IF i > Len(MapPdosWrites) THEN dict
    ELSE ApplyFrom(ApplyWrite(dict, MapPdosWrites[i]), i + 1)

CleanRunOd(dict) == ApplyFrom(dict, 1)

\* C10: a failing write ends the call at once with the error at the caller
\* (no later write is issued); every call, also one made after a failed or a
\* completed call, issues the writes of a clean run from the first one on, and
\* a call that completes leaves the mapping a single clean run leaves.
C10_MapPdosRetry ==
    /\ (mfailedAt # 0 => mpc = "raised" /\ Len(mlog) = mfailedAt)
    /\ IsPrefix(mlog, MapPdosWrites)
    /\ (mpc = "done" => mlog = MapPdosWrites /\ od = CleanRunOd(od0))

\* C10 witness: a call completed after an earlier call had failed part-way
C10_Witness ==
    /\ mpc = "done"
    /\ mruns >= 2
    /\ mfails >= 1
    /\ od0 = OdFactory
    /\ od = CleanRunOd(od0)

(***************************************************************************)
(* Claims about LC10ECsvDemo (checked under SpecDemo)                      *)
(***************************************************************************)
StageErrors == {DemoStages[i].err : i \in 1..Len(DemoStages)}

\* the controlwords of the exchanges made so far, in order
SentControlwords == [i \in 1..Len(xlog) |-> xlog[i][1]]

Sent(cw) == \E i \in 1..Len(xlog) : xlog[i][1] = cw

\* C4: while every statusword read so far had the fault bit 0x0008 set, at
\* most 50 exchanges carried controlword 0x0080, no other controlword (so no
\* Shutdown 0x0006) was sent and no stage reported a timeout; the
\* fault-not-cleared error is raised only after 50 such exchanges, and after
\* the 50th the run can only fail.
C4_FaultResetBounded ==
    /\ dx80 <= FAULT_RESET_ATTEMPTS
    /\ dfaultAlways =>
          /\ \A i \in 1..Len(xlog) : xlog[i][1] = CONTROLWORD_FAULT_RESET
          /\ ~Sent(CONTROLWORD_SHUTDOWN)
          /\ derr \notin StageErrors
          /\ dpc \notin {"reach", "hold", "ramp_zero", "ramp_shutdown"}
    /\ derr = "FaultNotCleared" =>
          /\ dfaultAlways
          /\ dx80 = FAULT_RESET_ATTEMPTS
          /\ dattempt = FAULT_RESET_ATTEMPTS
    /\ (dfaultAlways /\ dx80 = FAULT_RESET_ATTEMPTS) =>
          \/ dpc = "clear_faults"
          \/ derr \in {"FaultNotCleared", "TransportError", "KeyboardInterrupt"}

\* C4 witness: the fault bit was set in all 50 statuswords and run() has ended
\* with the fault-not-cleared error
C4_Witness ==
    /\ dpc = "exit"
    /\ derr = "FaultNotCleared"
    /\ dx80 = FAULT_RESET_ATTEMPTS
    /\ xlog = << <<CONTROLWORD_FAULT_RESET, 0>> >>

\* the exchanges of a complete _enable_drive, repeats of one exchange left out
EnableExchanges(target) ==
    << <<CONTROLWORD_FAULT_RESET, 0>> >>
    \o [i \in 1..Len(DemoStages) |-> <<DemoStages[i].cw, StageVelocity(i, target)>>]

EnablePart(log) ==
    IF Len(log) <= Len(EnableExchanges(0)) THEN log
    ELSE SubSeq(log, 1, Len(EnableExchanges(0)))

\* C5: the controlwords go out in the order 0x0080, 0x0006, 0x0007, 0x000F; the
\* controlword of a stage is sent only after the stage before it observed its
\* statusword; a stage that times out ends the run with the error naming that
\* stage, at or after its deadline, without having observed its statusword and
\* with no later stage's controlword sent; _enable_drive returns (the hold loop
\* is entered) only after 0x0027 was observed.
C5_EnableOrder ==
    /\ IsPrefix(EnablePart(xlog), EnableExchanges(dtarget))
    /\ \A i \in 2..Len(DemoStages) :
          (Len(xlog) >= i + 1) => (i - 1) \in dobserved
    /\ \A i \in 1..Len(DemoStages) :
          derr = DemoStages[i].err =>
              /\ dstage = i
              /\ i \notin dobserved
              /\ ~BeforeDeadline(dnow, ddeadline)
              /\ Len(xlog) <= i + 1
              /\ ~dholdEntered
    /\ (dholdEntered \/ dpc \in {"hold", "ramp_zero", "ramp_shutdown"}) =>
          /\ dobserved = 1..Len(DemoStages)
          /\ EnablePart(xlog) = EnableExchanges(dtarget)

\* C5 witness: the first two stages observed their statuswords, the third timed
\* out and run() ended with its error
C5_Witness ==
    /\ dpc = "exit"
    /\ derr = "NotOperationEnabled"
    /\ dobserved = {1, 2}
    /\ SentControlwords = <<128, 6, 7, 15>>

\* C6: once the hold loop was entered, run() reaches its teardown only after
\* exactly one exchange with target 0 and exactly one exchange with the
\* shutdown controlword 0x0006.
C6_RampDownOnEveryExit ==
    (dholdEntered /\ dpc \in {"finally", "close", "exit"})
        => (drampZero = 1 /\ drampShutdown = 1)

InitWrites == Len(SelectSeq(dstateWrites, LAMBDA w : w = "INIT"))

\* C7: once the master was opened, run() ends only after exactly one request
\* of the INIT state and exactly one close() of the master.
C7_TeardownOnce ==
    (dopened /\ dpc = "exit") => (InitWrites = 1 /\ dcloses = 1)

\* positions of run() after the check of the SAFEOP state and before teardown
PastSafeOpPcs == {"op_request", "op_check", "clear_faults", "reach", "hold",
                  "ramp_zero", "ramp_shutdown"}

OpRequested == \E i \in 1..Len(dstateWrites) : dstateWrites[i] = "OP"

\* C11: with an output buffer shorter than the 7 mapped bytes or an input
\* buffer shorter than the 6 mapped bytes, run() fails before it goes past the
\* SAFEOP check: the OP state is not requested and no cycle is exchanged.
C11_ShortBufferFailsEarly ==
    (outLen < PACKED_OUTPUT_BYTES \/ inLen < PACKED_INPUT_BYTES)
        => (dpc \notin PastSafeOpPcs /\ ~OpRequested /\ xlog = <<>>)

RECURSIVE SignedLEValue(_)
SignedLEValue(bytes) ==
    IF Len(bytes) = 1
    THEN (IF bytes[1] >= 128 THEN bytes[1] - 256 ELSE bytes[1])
    ELSE bytes[1] + 256 * SignedLEValue(Tail(bytes))

\* the (controlword, mode, target) read back from an output buffer with the
\* layout u16 at 0, i8 at 2, i32 at 3
UnpackOutputs(buf) ==
    << LEValue(SubSeq(buf, 1, 2)), SignedLEValue(SubSeq(buf, 3, 3)),
       SignedLEValue(SubSeq(buf, 4, 7)) >>

\* C14: in every state of the hold loop, from its entry (the exchange that
\* observed 0x0027) on, the output buffer last exchanged has at least 7 bytes
\* and carries controlword 0x000F, mode 9 and the commanded target; it is
\* always the buffer packed for the exchange last made.
C14_HoldDrivesEnabled ==
    /\ dpc = "hold" =>
          /\ Len(dout) >= PACKED_OUTPUT_BYTES
          /\ UnpackOutputs(dout) = <<15, 9, dtarget>>
          /\ xlog[Len(xlog)] = <<15, dtarget>>
    /\ xlog # <<>> =>
          /\ Len(dout) = outLen
          /\ UnpackOutputs(dout) = <<xlog[Len(xlog)][1], 9, xlog[Len(xlog)][2]>>

\* C14 witness: the hold loop has made cycles after its first, with a negative
\* target
C14_Witness ==
    /\ dpc = "hold"
    /\ dnow > HOLD_SLEEP_MS
    /\ dtarget < 0
    /\ SubSeq(dout, 1, 3) = <<15, 0, 9>>

(***************************************************************************)
(* Claims about LC10ECsvDemo._exchange_pd (checked under SpecXchg)         *)
(***************************************************************************)
\* the order claimed for the statements of one cycle
ClaimedCycle == <<"pack", "send", "receive", "unpack">>

EventsOf(name) == Cardinality({i \in 1..Len(eevents) : eevents[i] = name})

\* C13: the statements executed over any sequence of cycles repeat the order
\* pack, send, receive, unpack, so no send precedes the packing of its cycle
\* or the receive of the cycle before; what a send puts on the wire is the
\* buffer packed for the call's own controlword and target, and what a call
\* returns was unpacked from the input its own receive delivered.
C13_CycleOrder ==
    /\ \A i \in 1..Len(eevents) :
          eevents[i] = ClaimedCycle[((i - 1) % Len(ClaimedCycle)) + 1]
    /\ EventsOf("send") <= EventsOf("pack")
    /\ EventsOf("send") <= EventsOf("receive") + 1
    /\ EventsOf("unpack") <= EventsOf("receive")
    /\ (epc = "run" /\ estep > 2) => UnpackOutputs(ewire) = <<ecw, CSV_MODE, etarget>>
    /\ (epc = "idle" /\ ecycles > 0) =>
          /\ UnpackOutputs(ewire) = <<ecw, CSV_MODE, etarget>>
          /\ eret[3] = ecycles
          /\ eret[1] = UnpackStatus(einLen, ein.status)

\* C13 witness: three complete cycles, the last with another controlword than
\* the one before
C13_Witness ==
    /\ epc = "idle"
    /\ ecycles = 3
    /\ Len(eevents) = 3 * Len(ClaimedCycle)
    /\ ecw = CONTROLWORD_SHUTDOWN
    /\ eret[1] = 39

(***************************************************************************)
(* Claims about EtherCATController.home (checked under SpecHome)           *)
(***************************************************************************)
\* C15: once a polled statusword had the homing-error bit 13 (0x2000) set,
\* home() has ended with a homing-error failure, which is not the failure of
\* the elapsed timeout.
C15_HomingErrorIsDistinct ==
    hsawError => (hpc = "raised" /\ herr = "HomingError")

\* the register writes claimed for home(): mode 0x6060 := 6, method 0x6098,
\* offset 0x607C, fast speed 0x6099:1, slow speed 0x6099:2 and acceleration
\* 0x609A each where the configuration has it, start homing 0x6040 := 0x001F
ClaimedHomeWrites(cfg) ==
    << <<24672, 0, 6>>, <<24728, 0, cfg.method>>, <<24700, 0, cfg.offset>> >>
    \o (IF cfg.speed_fast = <<>> THEN <<>> ELSE << <<24729, 1, cfg.speed_fast[1]>> >>)
    \o (IF cfg.speed_slow = <<>> THEN <<>> ELSE << <<24729, 2, cfg.speed_slow[1]>> >>)
    \o (IF cfg.accel = <<>> THEN <<>> ELSE << <<24730, 0, cfg.accel[1]>> >>)
    \o << <<24640, 0, 31>> >>

\* C16: the writes of home() are a prefix of the claimed writes, all of them
\* have been issued when the polling begins, and no statusword is polled
\* before the start-homing controlword was written.
C16_HomeWriteOrder ==
    /\ IsPrefix(hwrites, ClaimedHomeWrites(hcfg))
    /\ (hpc \in {"wait", "done"} \/ hpolls > 0) => hwrites = ClaimedHomeWrites(hcfg)

TableKeys == {0, 1, 3, 4, 7, 8, 15, 33, 35, 39, 64}

StateLabels ==
    {"Not ready to switch on", "Switch on disabled (step)",
     "Switch on disabled / transition", "Switch on disabled", "Ready to switch on",
     "Switched on", "Operation enabled", "Quick stop active",
     "Fault reaction active", "Fault"}

\* C18: every call of _decode_state returns; what it returns is one of the
\* state labels or the Unknown label, is the same for the statusword and for
\* the statusword masked with 0x006F, is the Unknown label with the masked
\* value exactly for the masked values outside the table, and is 'Operation
\* enabled' for 0x0237.
C18_DecodeStateTotal ==
    /\ qpc \in {"decode", "decoded"} => qstatus \in 0..65535
    /\ qpc = "decoded" =>
          LET masked == BitAnd(qstatus, 111) IN
          /\ qlabel[1] \in StateLabels \cup {"Unknown"}
          /\ qlabel = DecodeState(masked)
          /\ \A other \in StatusInputs :
                BitAnd(other, 111) = masked => DecodeState(other) = qlabel
          /\ (masked \notin TableKeys) = (qlabel = <<"Unknown", masked>>)
          /\ (masked \in TableKeys) = (qlabel[1] \in StateLabels /\ qlabel[2] = -1)
          /\ qstatus = 567 => qlabel[1] = "Operation enabled"
          /\ masked = 39 => qlabel[1] = "Operation enabled"

\* C18 witness: 0x0237 was decoded
C18_Witness ==
    /\ qpc = "decoded"
    /\ qstatus = 567
    /\ qlabel[1] = "Operation enabled"

\* C19: _pack_outputs on a buffer of at least 7 bytes returns as many bytes as
\* the buffer has, each in 0..255, with the controlword little-endian at
\* bytes 0-1, 9 at byte 2, the target as little-endian two's complement at
\* bytes 3-6 and 0 in every further byte; reading the bytes back with this
\* layout gives the (controlword, 9, target) packed; (0x000F, -500) packs to
\* 0F 00 09 0C FE FF FF.  It raises only on a buffer shorter than 7 bytes.
C19_PackRoundTrip ==
    /\ qpc = "packed" =>
          /\ Len(qbytes) = qlen
          /\ \A i \in 1..Len(qbytes) : qbytes[i] \in 0..255
          /\ qbytes[1] = qcw % 256
          /\ qbytes[2] = qcw \div 256
          /\ qbytes[3] = 9
          /\ SignedLEValue(SubSeq(qbytes, 4, 7)) = qtarget
          /\ (qbytes[7] >= 128) = (qtarget < 0)
          /\ \A i \in 8..Len(qbytes) : qbytes[i] = 0
          /\ UnpackOutputs(qbytes) = <<qcw, 9, qtarget>>
          /\ (qcw = 15 /\ qtarget = -500) =>
                SubSeq(qbytes, 1, 7) = <<15, 0, 9, 12, 254, 255, 255>>
    /\ qpc = "raised" => qlen < 7
    /\ (qpc \in {"packed", "raised"} /\ qlen >= 7) => qpc = "packed"

\* C19 witness: the all-bits-set controlword was packed with the smallest
\* 32-bit target
C19_Witness ==
    /\ qpc = "packed"
    /\ qcw = 65535
    /\ qtarget = -2147483647 - 1
    /\ SubSeq(qbytes, 1, 7) = <<255, 255, 9, 0, 0, 0, 128>>

(***************************************************************************)
(* Claims about pysoem_cia402_demo.main (checked under SpecMain)           *)
(***************************************************************************)
QuickStopEntry == SdoEntry(OBJ_CONTROLWORD, CONTROLWORD_QUICK_STOP)

CountOf(entry) == Cardinality({i \in 1..Len(nlog) : nlog[i] = entry})

QuickStopAttempts == CountOf(QuickStopEntry)

TeardownEntries == {StateEntry(INIT_STATE), CloseEntry}

\* no quick-stop attempt follows the INIT request or the close()
QuickStopsBeforeTeardown ==
    \A i \in 1..Len(nlog), j \in 1..Len(nlog) :
        (nlog[i] \in TeardownEntries /\ nlog[j] = QuickStopEntry) => j < i

\* the INIT request and then the close(), once each, end the log
TeardownRan ==
    /\ Len(nlog) >= 2
    /\ nlog[Len(nlog) - 1] = StateEntry(INIT_STATE)
    /\ nlog[Len(nlog)] = CloseEntry
    /\ CountOf(StateEntry(INIT_STATE)) = 1
    /\ CountOf(CloseEntry) = 1

\* exactly one KeyboardInterrupt arrived, while the try block was running and
\* after config_init had found devices
OneInterruptAfterDiscovery ==
    /\ nintr = 1
    /\ nslaves > 0
    /\ nintrAt \in (MainBodyPcs \ {"open", "config_init"}) \cup {"quick_stop_write"}

MainPastHandler == npc \in {"fin_write", "fin_close", "exit"}

\* C8 as stated: an interrupt after devices were discovered causes exactly one
\* attempt to write 0x000B to 0x6040, a register error from it is swallowed,
\* the attempt precedes the INIT request and the close, and teardown runs.
C8_ExactlyOneQuickStop ==
    /\ QuickStopsBeforeTeardown
    /\ (OneInterruptAfterDiscovery /\ MainPastHandler) =>
          /\ QuickStopAttempts = 1
          /\ nerr \in {"none", "WriteStateError"}
    /\ (OneInterruptAfterDiscovery /\ npc = "exit") => TeardownRan

\* C8 amended: an interrupt that arrives while the try block runs after devices
\* were discovered causes one attempt by the handler to write 0x000B to 0x6040;
\* this is the second attempt of the run exactly when the interrupt arrives
\* during the quick stop that ends a completed demo, and never more than two
\* attempts are made.  A register error from an attempt is swallowed, every
\* attempt precedes the INIT request and the close, and the teardown runs, also
\* when a quick-stop write failed.
C8_QuickStopOnInterrupt ==
    /\ QuickStopAttempts <= 2
    /\ QuickStopsBeforeTeardown
    /\ (OneInterruptAfterDiscovery /\ MainPastHandler) =>
          /\ QuickStopAttempts = (IF nintrAt = "quick_stop_write" THEN 2 ELSE 1)
          /\ nerr \in {"none", "WriteStateError"}
    /\ (OneInterruptAfterDiscovery /\ npc = "exit") => TeardownRan
    /\ (nqsFailed /\ nintr = 0 /\ MainPastHandler) =>
          nerr \in {"none", "WriteStateError"}
    /\ (nqsFailed /\ nintr = 0 /\ npc = "exit") => TeardownRan

\* C8 witness: the demo was interrupted while pumping process data, the
\* handler's quick-stop write raised a register error, and main() ended with
\* the teardown done
C8_Witness ==
    /\ npc = "exit"
    /\ OneInterruptAfterDiscovery
    /\ nintrAt = "pump"
    /\ nqsFailed
    /\ QuickStopAttempts = 1
    /\ nerr = "none"
    /\ TeardownRan

(***************************************************************************)
(* Claims about the actual velocity (SpecPair)                             *)
(***************************************************************************)
\* what a run decided and sent: everything but what it printed
ProtocolView(st) ==
    [pc |-> st.pc, err |-> st.err, attempt |-> st.attempt, stage |-> st.stage,
     now |-> st.now, sent |-> st.sent, out |-> st.out]

\* C20: two runs of _enable_drive followed by _hold_velocity that are given
\* the same statuswords at the same times but different actual velocities
\* send the same sequence of controlword, mode and target, pack the same
\* output buffer in every exchange, and leave by the same path (the same
\* return or the same error) at the same time.
C20_VelocityNeverDecides == ProtocolView(runA) = ProtocolView(runB)

\* both runs held the velocity and ramped down, and printed different speeds
C20_Witness ==
    /\ runA.pc = "returned"
    /\ runB.pc = "returned"
    /\ runA.shown[2] # runB.shown[2]
    /\ runA.shown[3] # runB.shown[3]
    /\ Len(runA.sent) >= 5

(***************************************************************************)
(* Claims about load() and the EtherCATController (SpecSess)               *)
(***************************************************************************)
IsWriteEntry(e) == e[1] = "write"

\* the register writes of the running or last call: (index, subindex, value)
WritesOf(log) ==
    LET sel == SelectSeq(log, IsWriteEntry)
    IN [i \in 1..Len(sel) |-> <<sel[i][4], sel[i][5], sel[i][6]>>]

\* the servo operation op is running or was the last call, on a bound servo
OpOnBound(op) == scall.op = op /\ HasHandle(sservos, scall.name)

OpEnded == spc = "idle"

CalledConfig == HandleOf(sservos, scall.name).config

\* 0x6060 := 1, 0x6081, 0x6083, 0x6084, 0x607A, 0x6040 := 0x003F, 0x001F
ClaimedPositionWrites(limits, position) ==
    << <<24672, 0, 1>>, <<24705, 0, limits.max_rpm>>, <<24707, 0, limits.accel_rpm_s>>,
       <<24708, 0, limits.decel_rpm_s>>, <<24698, 0, position>>, <<24640, 0, 63>>,
       <<24640, 0, 31>> >>

\* 0x6060 := 3, 0x6081, 0x6083, 0x6084, 0x60FF, 0x6040 := 0x000F
ClaimedVelocityWrites(limits, velocity) ==
    << <<24672, 0, 3>>, <<24705, 0, limits.max_rpm>>, <<24707, 0, limits.accel_rpm_s>>,
       <<24708, 0, limits.decel_rpm_s>>, <<24831, 0, velocity>>, <<24640, 0, 15>> >>

C22_SetupErrorsBeforeBus ==
    (sdata \in DefectiveSetups /\ sconnect) =>
        /\ spc \in {"load", "c_esi", "failed"}
        /\ smaster = 0
        /\ smasters = <<>>
        /\ slog = <<>>
        /\ sservos = <<>>
        /\ spc = "failed" => serr \in {"ValueError", "FileNotFoundError"}

\* load() was given a setup whose second servo names an ESI file that does
\* not exist; connect() raised in ensure_esies_exist
C22_Witness ==
    /\ sconnect
    /\ sdata.exists
    /\ RequiredSetupKeys \subseteq sdata.keys
    /\ EsiMissing(ssetup)
    /\ spc = "failed"
    /\ serr = "FileNotFoundError"
    /\ smasters = <<>>

IsRegisterAccess(e) == e[1] \in {"read", "write"}

\* C23: no servo operation reads or writes a register of a device whose
\* Master has been closed by shutdown(): every register access in the log of
\* a call was made on a Master that was open at the time.
C23_NoAccessAfterShutdown ==
    \A i \in 1..Len(slog) : IsRegisterAccess(slog[i]) => slog[i][7]

ServoOps ==
    {"enable_drive", "quick_stop", "set_target_position", "set_target_velocity", "home"}

\* the servos are configured under distinct names and distinct
\* (alias, position) pairs
DistinctSetup(servos) ==
    \A i, j \in 1..Len(servos) :
        i # j => /\ servos[i].name # servos[j].name
                 /\ <<servos[i].alias, servos[i].position>>
                      # <<servos[j].alias, servos[j].position>>

\* the (alias, position) configured for the servo of this name
ConfiguredPair(name) ==
    LET cfg == ssetup[CHOOSE i \in 1..Len(ssetup) : ssetup[i].name = name]
    IN <<cfg.alias, cfg.position>>

\* C24: with distinct names and distinct (alias, position) pairs, every
\* register read and write of an operation called for one servo is made on
\* the device whose alias and position are those configured for that servo,
\* and so on no device configured for another servo.
C24_OperationsTouchOwnDevice ==
    (scall.op \in ServoOps /\ HasHandle(sservos, scall.name) /\ DistinctSetup(ssetup)) =>
        \A i \in 1..Len(slog) :
            IsRegisterAccess(slog[i]) =>
                /\ sbus[slog[i][3]] = ConfiguredPair(scall.name)
                /\ \A j \in 1..Len(ssetup) :
                     ssetup[j].name # scall.name =>
                        sbus[slog[i][3]] # <<ssetup[j].alias, ssetup[j].position>>

\* two servos are bound and home('b') has written and polled its way to the
\* end on the second device
C24_Witness ==
    /\ Len(sservos) = 2
    /\ scall.op = "home"
    /\ scall.name = "b"
    /\ OpEnded
    /\ serr = "none"
    /\ Len(slog) >= 4
    /\ \A i \in 1..Len(slog) : slog[i][3] = 2

\* the entry is write_state() with master.state set to this state
IsStateRequest(e, state) == e[1] = "write_state" /\ e[6] = state

\* the entry is a state_check for this state that returned it
IsStateConfirmed(e, state) == e[1] = "state_check" /\ e[5] = state /\ e[6] = state

\* C25 (for EtherCATController.connect): OP is requested only after a
\* state_check has confirmed SAFEOP, and connect returns normally only after
\* a state_check has confirmed OP.
C25_OpOnlyAfterSafeOp ==
    /\ \A i \in 1..Len(slog) :
         IsStateRequest(slog[i], OP_STATE) =>
            \E j \in 1..(i - 1) : IsStateConfirmed(slog[j], SAFEOP_STATE)
    /\ (scall.op \in {"connect", "load"} /\ OpEnded /\ serr = "none" /\ slog # <<>>) =>
         IsStateConfirmed(slog[Len(slog)], OP_STATE)

\* C27: no Master is closed twice, and when shutdown() was the last call
\* every Master that was opened has been closed exactly once.
C27_EveryMasterClosedOnce ==
    /\ \A m \in 1..Len(smasters) : smasters[m].closes <= 1
    /\ (scall.op = "shutdown" /\ OpEnded) =>
         \A m \in 1..Len(smasters) : smasters[m].opened => smasters[m].closes = 1

\* the position lies within the bounds the limits set
WithinBounds(limits, position) ==
    /\ limits.pos_min # <<>> => position >= limits.pos_min[1]
    /\ limits.pos_max # <<>> => position <= limits.pos_max[1]

\* C28: set_target_position writes to 0x607A only a target within the
\* servo's position bounds, and writes the new-set-point controlword 0x003F
\* only for such a target.
C28_TargetWithinBounds ==
    OpOnBound("set_target_position") =>
        \A i \in 1..Len(slog) :
            (slog[i][1] = "write" /\ (slog[i][4] = 24698 \/ slog[i][6] = 63)) =>
                WithinBounds(CalledConfig.limits, scall.arg)

\* the devices of the log in the order they were first accessed
RECURSIVE DevicesVisited(_)
DevicesVisited(log) ==
    IF log = <<>> THEN <<>>
    ELSE LET before == DevicesVisited(SubSeq(log, 1, Len(log) - 1))
             d == log[Len(log)][3]
         IN IF Len(before) > 0 /\ before[Len(before)] = d THEN before
            ELSE Append(before, d)

\* the controlwords written to the device d
ControlwordsTo(log, d) ==
    LET IsCw(e) == e[1] = "write" /\ e[3] = d /\ e[4] = 24640
        sel == SelectSeq(log, IsCw)
    IN [i \in 1..Len(sel) |-> sel[i][6]]

RECURSIVE MappedBits(_, _, _)
MappedBits(dict, map, n) ==
    IF n = 0 THEN 0
    ELSE MappedBits(dict, map, n - 1) + (LEValue(dict[<<map, n>>]) % 256)

\* The layout a mapping object programs: for each of its entries (as many as
\* its subindex 0 says) the object index (the upper 16 bits of the entry),
\* the byte offset (the widths of the entries before it) and the byte width
\* (the lowest 8 bits of the entry are its bit length).
MappedLayout(dict, map) ==
    [k \in 1..LEValue(dict[<<map, 0>>]) |->
        [index |-> LEValue(dict[<<map, k>>]) \div 65536,
         offset |-> MappedBits(dict, map, k - 1) \div 8,
         width |-> (LEValue(dict[<<map, k>>]) % 256) \div 8]]

\* the bytes of a buffer that a field covers
FieldBytes(buf, f) == SubSeq(buf, f.offset + 1, f.offset + f.width)

\* C26: once _map_pdos has run to its end, the layout programmed in 0x1600
\* is, entry by entry, the objects, byte offsets and byte widths that
\* _pack_outputs packs (controlword at 0, mode at 2, target velocity at 3),
\* the layout programmed in 0x1A00 is what _exchange_pd unpacks (statusword
\* at 0, actual velocity at 2), both are the assigned PDOs, and the packed
\* buffer carries each value in the bytes of its field.
C26_OffsetsMatchMapping ==
    mpc = "done" =>
        /\ MappedLayout(od, 5632) = OutputFields
        /\ MappedLayout(od, 6656) = InputFields
        /\ LEValue(od[<<7186, 1>>]) = 5632 /\ LEValue(od[<<7186, 0>>]) = 1
        /\ LEValue(od[<<7187, 1>>]) = 6656 /\ LEValue(od[<<7187, 0>>]) = 1
        /\ \A cw \in {15, 65535}, target \in {-500, 100000} :
            LET buf == PackOutputs(PACKED_OUTPUT_BYTES, cw, target)
            IN /\ FieldBytes(buf, OutputFields[1]) = LEBytes(cw, 2)
               /\ FieldBytes(buf, OutputFields[2]) = LEBytes(CSV_MODE, 1)
               /\ FieldBytes(buf, OutputFields[3]) = LEBytes(target, 4)
        /\ OutputFields[3].offset + OutputFields[3].width = PACKED_OUTPUT_BYTES
        /\ InputFields[2].offset + InputFields[2].width = PACKED_INPUT_BYTES

\* _map_pdos has replaced the position mapping the drive came up with
C26_Witness ==
    /\ mpc = "done"
    /\ od0 = OdFactory
    /\ MappedLayout(od0, 5632) # OutputFields
    /\ MappedLayout(od, 5632) = OutputFields
    /\ MappedLayout(od, 6656) = InputFields

(***************************************************************************)
(* Claims about _decode_state and the fault test (SpecCodec)               *)
(***************************************************************************)
FaultLabels == {"Fault", "Fault reaction active"}

\* C30: _decode_state labels a statusword 'Fault' or 'Fault reaction
\* active' exactly when the fault test of _clear_faults finds its fault bit
\* (0x0008) set.
C30_DecodeAgreesWithFaultBit ==
    qpc = "decoded" => (~FaultCleared(qstatus) <=> qlabel[1] \in FaultLabels)


====
